---- MODULE Spec2Model ----
(***************************************************************************)
(* Model of the Rotten Tomatoes movie analysis program:                    *)
(*   module02/person/person.py   Person flyweight + get_person             *)
(*   module02/movie/rating.py    MovieRating flyweight + get_rating        *)
(*   module02/movie/movie.py     Movie classes + create_movie factory      *)
(*   eval_02.py                  load_movies and the menu operations       *)
(*                                                                         *)
(* Python str values are sequences of one-character strings, None is the   *)
(* empty tuple and a present Optional value v is the one-element tuple     *)
(* <<v>>.                                                                  *)
(***************************************************************************)
EXTENDS Integers, Sequences, FiniteSets, TLC

VARIABLES
    MovieRating_instances, \* rating.py  MovieRating._instances
    Person_instances,      \* person.py  Person._instances
    nextId,                \* identity of the next object that is constructed
    source,                \* the rows of the csv file, in file order
    line,                  \* number of rows the csv reader has yielded so far
    movies,                \* eval_02.py load_movies: movies
    errors,                \* eval_02.py load_movies: errors
    pc,                    \* position of the main program
    calls,                 \* registry calls made so far, with their outcome
    export_file,           \* eval_02.py EXPORT_FILE: the rows written to it
    threads,               \* callers of get_person in flight: position and locals
    out                    \* what the last operation reported

vars == <<MovieRating_instances, Person_instances, nextId, source, line,
          movies, errors, pc, calls, export_file, threads, out>>

-----------------------------------------------------------------------------
(* Optional values *)

None == <<>>

Some(v) == <<v>>

IsNone(o) == o = <<>>

Val(o) == o[1]

-----------------------------------------------------------------------------
(* Python str: characters that occur in the modelled inputs, in code point *)
(* order, so that Ord orders characters as Python compares them.           *)

Alphabet ==
    <<" ", "&", ",", "-",
      "0", "1", "2", "3", "4", "5", "6", "7", "8", "9",
      "A", "B", "C", "D", "E", "F", "G", "H", "I", "J", "K", "L", "M",
      "N", "O", "P", "Q", "R", "S", "T", "U", "V", "W", "X", "Y", "Z",
      "a", "b", "c", "d", "e", "f", "g", "h", "i", "j", "k", "l", "m",
      "n", "o", "p", "q", "r", "s", "t", "u", "v", "w", "x", "y", "z">>

Chars == {Alphabet[i] : i \in 1..Len(Alphabet)}

Ord == [c \in Chars |-> CHOOSE i \in 1..Len(Alphabet) : Alphabet[i] = c]

FirstUpper == Ord["A"]

FirstLower == Ord["a"]

IsUpperChar(c) == Ord[c] >= FirstUpper /\ Ord[c] < FirstUpper + 26

IsLowerChar(c) == Ord[c] >= FirstLower /\ Ord[c] < FirstLower + 26

IsDigitChar(c) == Ord[c] >= Ord["0"] /\ Ord[c] <= Ord["9"]

DigitVal(c) == Ord[c] - Ord["0"]

DigitChar(d) == Alphabet[Ord["0"] + d]

\* str.upper() and str.lower(), one character
UpperChar(c) == IF IsLowerChar(c) THEN Alphabet[Ord[c] - FirstLower + FirstUpper] ELSE c

LowerChar(c) == IF IsUpperChar(c) THEN Alphabet[Ord[c] - FirstUpper + FirstLower] ELSE c

upper(s) == [i \in 1..Len(s) |-> UpperChar(s[i])]

lower(s) == [i \in 1..Len(s) |-> LowerChar(s[i])]

SetMin(S) == CHOOSE x \in S : \A y \in S : x <= y

SetMax(S) == CHOOSE x \in S : \A y \in S : x >= y

\* str.strip(): drop leading and trailing whitespace
strip(s) ==
    LET keep == {i \in 1..Len(s) : s[i] # " "}
    IN  IF keep = {} THEN <<>> ELSE SubSeq(s, SetMin(keep), SetMax(keep))

\* str.split(","): the pieces between the commas, empty pieces included
RECURSIVE split(_)
split(s) ==
    LET commas == {i \in 1..Len(s) : s[i] = ","}
    IN  IF commas = {} THEN <<s>>
        ELSE LET i == SetMin(commas)
             IN  <<SubSeq(s, 1, i - 1)>> \o split(SubSeq(s, i + 1, Len(s)))

\* str < str: lexicographic by code point
RECURSIVE StrLess(_, _)
StrLess(a, b) ==
    IF b = <<>> THEN FALSE
    ELSE IF a = <<>> THEN TRUE
    ELSE IF a[1] # b[1] THEN Ord[a[1]] < Ord[b[1]]
    ELSE StrLess(Tail(a), Tail(b))

-----------------------------------------------------------------------------
(* person.py *)

\* Person.__post_init__ run on a new Person(fullname): the registry after
\* construction, or the ValueError it raises
Person_post_init(fullname, reg, id) ==
    IF fullname = <<>>
    THEN [ok |-> FALSE, err |-> "EmptyName", reg |-> reg, nid |-> id + 1]
    ELSE LET key == lower(strip(fullname))
         IN  IF key \in DOMAIN reg
             THEN [ok |-> FALSE, err |-> "DuplicatePerson", reg |-> reg, nid |-> id + 1]
             ELSE LET self == [id |-> id, fullname |-> fullname]
                  IN  [ok |-> TRUE, person |-> self, nid |-> id + 1,
                       reg |-> [k \in DOMAIN reg \cup {key} |->
                                    IF k = key THEN self ELSE reg[k]]]

\* get_person that looks the name up as written, without lowering it
get_person_case_sensitive(fullname, reg, id) ==
    IF IsNone(fullname)
    THEN [ok |-> FALSE, err |-> "EmptyName", reg |-> reg, nid |-> id]
    ELSE LET cleaned == strip(Val(fullname))
         IN  IF cleaned = <<>>
             THEN [ok |-> FALSE, err |-> "EmptyName", reg |-> reg, nid |-> id]
             ELSE IF cleaned \in DOMAIN reg
                  THEN [ok |-> TRUE, person |-> reg[cleaned], reg |-> reg, nid |-> id]
                  ELSE Person_post_init(cleaned, reg, id)

\* get_person(fullname), fullname an Optional str
get_person(fullname, reg, id) ==
    IF IsNone(fullname)
    THEN [ok |-> FALSE, err |-> "EmptyName", reg |-> reg, nid |-> id]
    ELSE LET cleaned == strip(Val(fullname))
         IN  IF cleaned = <<>>
             THEN [ok |-> FALSE, err |-> "EmptyName", reg |-> reg, nid |-> id]
             ELSE LET key == lower(cleaned)
                  IN  IF key \in DOMAIN reg
                      THEN [ok |-> TRUE, person |-> reg[key], reg |-> reg, nid |-> id]
                      ELSE Person_post_init(cleaned, reg, id)

get_person_count(reg) == Cardinality(DOMAIN reg)

\* Person.__eq__
Person_eq(p, q) == lower(p.fullname) = lower(q.fullname)

-----------------------------------------------------------------------------
(* rating.py *)

\* MovieRating._order
MovieRating_order ==
    <<<<"N", "R">>,
      <<"G">>,
      <<"P", "G">>,
      <<"P", "G", "-", "1", "3">>,
      <<"R">>,
      <<"N", "C", "1", "7">>>>

OrderCodes == {MovieRating_order[i] : i \in 1..Len(MovieRating_order)}

\* MovieRating.__post_init__ without the check for an existing instance: the
\* new object takes the place of the registered one
MovieRating_post_init_replace(code, description, reg, id) ==
    IF code = <<>>
    THEN [ok |-> FALSE, err |-> "EmptyCode", reg |-> reg, nid |-> id + 1]
    ELSE IF description = ""
    THEN [ok |-> FALSE, err |-> "EmptyDescription", reg |-> reg, nid |-> id + 1]
    ELSE LET normalized == upper(code)
         IN  IF normalized \notin OrderCodes
             THEN [ok |-> FALSE, err |-> "UnknownRatingCode", reg |-> reg, nid |-> id + 1]
             ELSE LET self == [id |-> id, code |-> code, description |-> description]
                  IN  [ok |-> TRUE, rating |-> self, nid |-> id + 1,
                       reg |-> [k \in DOMAIN reg \cup {normalized} |->
                                    IF k = normalized THEN self ELSE reg[k]]]

\* MovieRating.__post_init__ run on a new MovieRating(code, description)
MovieRating_post_init(code, description, reg, id) ==
    IF code = <<>>
    THEN [ok |-> FALSE, err |-> "EmptyCode", reg |-> reg, nid |-> id + 1]
    ELSE IF description = ""
    THEN [ok |-> FALSE, err |-> "EmptyDescription", reg |-> reg, nid |-> id + 1]
    ELSE LET normalized == upper(code)
         IN  IF normalized \notin OrderCodes
             THEN [ok |-> FALSE, err |-> "UnknownRatingCode", reg |-> reg, nid |-> id + 1]
             ELSE IF normalized \in DOMAIN reg
             THEN [ok |-> FALSE, err |-> "DuplicateRating", reg |-> reg, nid |-> id + 1]
             ELSE LET self == [id |-> id, code |-> code, description |-> description]
                  IN  [ok |-> TRUE, rating |-> self, nid |-> id + 1,
                       reg |-> [k \in DOMAIN reg \cup {normalized} |->
                                    IF k = normalized THEN self ELSE reg[k]]]

\* _create_predefined_ratings: descriptions, in insertion order
descriptions ==
    <<[code |-> <<"N", "R">>, desc |-> "Not rated"],
      [code |-> <<"G">>, desc |-> "All ages"],
      [code |-> <<"P", "G">>, desc |-> "Parental guidance advised"],
      [code |-> <<"P", "G", "-", "1", "3">>, desc |-> "Parental guidance strongly advised"],
      [code |-> <<"R">>, desc |-> "Under 17, parental guidance advised"],
      [code |-> <<"N", "C", "1", "7">>, desc |-> "For adults only"]>>

\* the loop of _create_predefined_ratings from entry i on
RECURSIVE _create_predefined_ratings(_, _, _)
_create_predefined_ratings(i, reg, id) ==
    IF i > Len(descriptions) THEN [reg |-> reg, nid |-> id]
    ELSE IF descriptions[i].code \in DOMAIN reg
    THEN _create_predefined_ratings(i + 1, reg, id)
    ELSE LET r == MovieRating_post_init(descriptions[i].code, descriptions[i].desc, reg, id)
         IN  _create_predefined_ratings(i + 1, r.reg, r.nid)

EmptyRegistry == [k \in {} |-> 0]

\* state of rating.py after the module is imported (line 179)
RatingModuleLoaded == _create_predefined_ratings(1, EmptyRegistry, 1)

\* get_rating that upper-cases the code but leaves surrounding blanks in place
get_rating_unstripped(code, reg) ==
    IF IsNone(code) THEN [ok |-> FALSE, err |-> "UnknownRatingCode"]
    ELSE LET normalized == upper(Val(code))
         IN  IF normalized \notin DOMAIN reg
             THEN [ok |-> FALSE, err |-> "UnknownRatingCode"]
             ELSE [ok |-> TRUE, rating |-> reg[normalized]]

\* get_rating(code), code an Optional str
get_rating(code, reg) ==
    IF IsNone(code) THEN [ok |-> FALSE, err |-> "UnknownRatingCode"]
    ELSE LET normalized == upper(strip(Val(code)))
         IN  IF normalized \notin DOMAIN reg
             THEN [ok |-> FALSE, err |-> "UnknownRatingCode"]
             ELSE [ok |-> TRUE, rating |-> reg[normalized]]

\* MovieRating._sort_index
_sort_index(rating) ==
    CHOOSE i \in 1..Len(MovieRating_order) : MovieRating_order[i] = upper(rating.code)

\* MovieRating.__lt__
MovieRating_lt(a, b) == _sort_index(a) < _sort_index(b)

\* MovieRating.__eq__
MovieRating_eq(a, b) == upper(a.code) = upper(b.code)

-----------------------------------------------------------------------------
(* movie.py: parsing helpers *)

\* value or "": the Python expression (x or "")
OrEmpty(o) == IF IsNone(o) THEN <<>> ELSE Val(o)

AllDigits(s) == s # <<>> /\ \A i \in 1..Len(s) : IsDigitChar(s[i])

RECURSIVE DigitsValue(_)
DigitsValue(s) ==
    IF s = <<>> THEN 0
    ELSE 10 * DigitsValue(SubSeq(s, 1, Len(s) - 1)) + DigitVal(s[Len(s)])

\* int(str) on a stripped, non-empty str: the value, or None for ValueError
int_of(s) ==
    IF s[1] = "-"
    THEN IF AllDigits(Tail(s)) THEN Some(0 - DigitsValue(Tail(s))) ELSE None
    ELSE IF AllDigits(s) THEN Some(DigitsValue(s)) ELSE None

\* _parse_int that answers 0 where the text is absent, empty or malformed
_parse_int_or_zero(value) ==
    IF IsNone(value) THEN Some(0)
    ELSE LET v == strip(Val(value))
         IN  IF v = <<>> THEN Some(0)
             ELSE IF IsNone(int_of(v)) THEN Some(0) ELSE int_of(v)

\* _parse_int(value), value an Optional str
_parse_int(value) ==
    IF IsNone(value) THEN None
    ELSE LET v == strip(Val(value))
         IN  IF v = <<>> THEN None ELSE int_of(v)

IsLeap(y) == (y % 4 = 0 /\ y % 100 # 0) \/ y % 400 = 0

DaysInMonth(y, m) ==
    IF m = 2 THEN (IF IsLeap(y) THEN 29 ELSE 28)
    ELSE IF m \in {4, 6, 9, 11} THEN 30 ELSE 31

\* date.fromisoformat(str) for the YYYY-MM-DD form: the date, or None for
\* ValueError
fromisoformat(s) ==
    IF Len(s) # 10 \/ s[5] # "-" \/ s[8] # "-" THEN None
    ELSE IF ~(AllDigits(SubSeq(s, 1, 4)) /\ AllDigits(SubSeq(s, 6, 7))
              /\ AllDigits(SubSeq(s, 9, 10))) THEN None
    ELSE LET y == DigitsValue(SubSeq(s, 1, 4))
             m == DigitsValue(SubSeq(s, 6, 7))
             d == DigitsValue(SubSeq(s, 9, 10))
         IN  IF y >= 1 /\ m >= 1 /\ m <= 12 /\ d >= 1 /\ d <= DaysInMonth(y, m)
             THEN Some([year |-> y, month |-> m, day |-> d])
             ELSE None

\* _parse_date(value), value an Optional str
_parse_date(value) ==
    IF IsNone(value) THEN None
    ELSE LET v == strip(Val(value))
         IN  IF v = <<>> THEN None ELSE fromisoformat(v)

\* the comprehension of _parse_directors without its "if name" filter
RECURSIVE get_persons_unfiltered(_, _, _, _)
get_persons_unfiltered(parts, i, reg, id) ==
    IF i > Len(parts) THEN [ok |-> TRUE, persons |-> <<>>, reg |-> reg, nid |-> id]
    ELSE LET g == get_person(Some(parts[i]), reg, id)
         IN  IF ~g.ok THEN g
             ELSE LET rest == get_persons_unfiltered(parts, i + 1, g.reg, g.nid)
                  IN  IF ~rest.ok THEN rest
                      ELSE [rest EXCEPT !.persons = <<g.person>> \o rest.persons]

\* [get_person(name) for name in parts if name], from part i on
RECURSIVE get_persons(_, _, _, _)
get_persons(parts, i, reg, id) ==
    IF i > Len(parts) THEN [ok |-> TRUE, persons |-> <<>>, reg |-> reg, nid |-> id]
    ELSE IF parts[i] = <<>> THEN get_persons(parts, i + 1, reg, id)
    ELSE LET g == get_person(Some(parts[i]), reg, id)
         IN  IF ~g.ok THEN g
             ELSE LET rest == get_persons(parts, i + 1, g.reg, g.nid)
                  IN  IF ~rest.ok THEN rest
                      ELSE [rest EXCEPT !.persons = <<g.person>> \o rest.persons]

\* _parse_directors(value), value an Optional str
_parse_directors(value, reg, id) ==
    IF IsNone(value) THEN [ok |-> TRUE, persons |-> <<>>, reg |-> reg, nid |-> id]
    ELSE LET text == strip(Val(value))
         IN  IF text = <<>>
             THEN [ok |-> TRUE, persons |-> <<>>, reg |-> reg, nid |-> id]
             ELSE LET pieces == split(text)
                      parts == [i \in 1..Len(pieces) |-> strip(pieces[i])]
                  IN  get_persons(parts, 1, reg, id)

-----------------------------------------------------------------------------
(* movie.py: Movie, its subclasses and the factory *)

\* Movie.__post_init__ without the coercion of a negative length
Movie_post_init_keep_length(cls, rt_link, title, rating, directors, release_date, streaming_date, length, company, score, count) ==
    IF rt_link = <<>> THEN [ok |-> FALSE, err |-> "InvalidRecord"]
    ELSE IF title = <<>> THEN [ok |-> FALSE, err |-> "InvalidRecord"]
    ELSE IF IsNone(rating) THEN [ok |-> FALSE, err |-> "InvalidRecord"]
    ELSE [ok |-> TRUE,
          movie |-> [cls |-> cls, rt_link |-> rt_link, title |-> title,
                     rating |-> Val(rating), directors |-> directors,
                     release_date |-> release_date,
                     streaming_date |-> streaming_date,
                     length |-> length,
                     company |-> company, score |-> score, count |-> count]]

\* Movie.__post_init__ run on a new cls(...); rating is an Optional so that
\* the check for None can be stated
Movie_post_init(cls, rt_link, title, rating, directors, release_date, streaming_date, length, company, score, count) ==
    IF rt_link = <<>> THEN [ok |-> FALSE, err |-> "InvalidRecord"]
    ELSE IF title = <<>> THEN [ok |-> FALSE, err |-> "InvalidRecord"]
    ELSE IF IsNone(rating) THEN [ok |-> FALSE, err |-> "InvalidRecord"]
    ELSE [ok |-> TRUE,
          movie |-> [cls |-> cls, rt_link |-> rt_link, title |-> title,
                     rating |-> Val(rating), directors |-> directors,
                     release_date |-> release_date,
                     streaming_date |-> streaming_date,
                     length |-> IF length < 0 THEN 0 ELSE length,
                     company |-> company, score |-> score, count |-> count]]

\* relevant_score that asks for more than 100 votes
relevant_score_over_100(self) ==
    IF IsNone(self.score) \/ IsNone(self.count) THEN <<FALSE, 0>>
    ELSE IF Val(self.count) <= 100 THEN <<FALSE, 0>>
    ELSE <<TRUE, Val(self.score)>>

\* Movie.relevant_score
relevant_score(self) ==
    IF IsNone(self.score) \/ IsNone(self.count) THEN <<FALSE, 0>>
    ELSE IF Val(self.count) < 100 THEN <<FALSE, 0>>
    ELSE <<TRUE, Val(self.score)>>

\* Movie.is_classic, today_year being date.today().year
is_classic(self, today_year) ==
    IF IsNone(self.release_date) THEN FALSE
    ELSE LET age == today_year - Val(self.release_date).year
         IN  IF age < 20 THEN FALSE
             ELSE LET rs == relevant_score(self)
                  IN  rs[1] /\ rs[2] >= 80

\* Movie.is_short
is_short(self) == self.length < 30

\* is_slapstick that reads the score value without the relevance flag
is_slapstick_on_value(self) ==
    LET rs == relevant_score(self)
    IN  rs[2] < 40

\* Comedy.is_slapstick
is_slapstick(self) ==
    LET rs == relevant_score(self)
    IN  rs[1] /\ rs[2] < 40

\* is_scary that takes PG itself as scary
is_scary_from_pg(self, ratings) ==
    LET pg == get_rating(Some(<<"P", "G">>), ratings).rating
    IN  ~MovieRating_lt(self.rating, pg)

\* Horror.is_scary: self.rating > pg is evaluated as pg < self.rating,
\* MovieRating defining only __lt__
is_scary(self, ratings) ==
    LET pg == get_rating(Some(<<"P", "G">>), ratings).rating
    IN  MovieRating_lt(pg, self.rating)

\* Romance.is_cosy
is_cosy(self) == 70 <= self.length /\ self.length <= 100

\* _GENRE_TO_CLASS
_GENRE_TO_CLASS ==
    (<<"A", "C", "T", "I", "O", "N", " ", "&", " ", "A", "D", "V", "E", "N", "T", "U", "R", "E">> :> "ActionAdventure")
    @@ (<<"C", "O", "M", "E", "D", "Y">> :> "Comedy")
    @@ (<<"D", "R", "A", "M", "A">> :> "Drama")
    @@ (<<"H", "O", "R", "R", "O", "R">> :> "Horror")
    @@ (<<"R", "O", "M", "A", "N", "C", "E">> :> "Romance")
    @@ (<<"S", "C", "I", "E", "N", "C", "E", " ", "F", "I", "C", "T", "I", "O", "N", " ", "&", " ", "F", "A", "N", "T", "A", "S", "Y">> :> "ScienceFictionFantasy")
    @@ (<<"W", "E", "S", "T", "E", "R", "N">> :> "Western")

\* cls.__name__ as a str
class_name ==
    [c \in {"ActionAdventure", "Comedy", "Drama", "Horror", "Romance",
            "ScienceFictionFantasy", "Western"} |->
        CASE c = "ActionAdventure" -> <<"A", "c", "t", "i", "o", "n", "A", "d", "v", "e", "n", "t", "u", "r", "e">>
          [] c = "Comedy" -> <<"C", "o", "m", "e", "d", "y">>
          [] c = "Drama" -> <<"D", "r", "a", "m", "a">>
          [] c = "Horror" -> <<"H", "o", "r", "r", "o", "r">>
          [] c = "Romance" -> <<"R", "o", "m", "a", "n", "c", "e">>
          [] c = "ScienceFictionFantasy" -> <<"S", "c", "i", "e", "n", "c", "e", "F", "i", "c", "t", "i", "o", "n", "F", "a", "n", "t", "a", "s", "y">>
          [] c = "Western" -> <<"W", "e", "s", "t", "e", "r", "n">>]

\* create_movie that resolves the rating before it checks the genre column
create_movie_rating_first(info, ratings, reg, id) ==
    LET rt_link == strip(OrEmpty(info.rotten_tomatoes_link))
        title == strip(OrEmpty(info.movie_title))
        rating_code == strip(OrEmpty(info.content_rating))
        genre_text == strip(OrEmpty(info.genre))
        fail(e) == [ok |-> FALSE, err |-> e, reg |-> reg, nid |-> id]
    IN  IF rt_link = <<>> THEN fail("MissingField rotten_tomatoes_link")
        ELSE IF title = <<>> THEN fail("MissingField movie_title")
        ELSE IF rating_code = <<>> THEN fail("MissingField content_rating")
        ELSE LET r == get_rating(Some(rating_code), ratings)
             IN  IF ~r.ok THEN fail(r.err)
        ELSE IF genre_text = <<>> THEN fail("MissingField genre")
        ELSE LET d == _parse_directors(info.directors, reg, id)
             IN  IF ~d.ok THEN [ok |-> FALSE, err |-> d.err, reg |-> d.reg, nid |-> d.nid]
        ELSE LET release_date == _parse_date(info.original_release_date)
                 streaming_date == _parse_date(info.streaming_release_date)
                 runtime == _parse_int(info.runtime)
                 length == IF IsNone(runtime) THEN 0 ELSE Val(runtime)
                 company_text == strip(OrEmpty(info.production_company))
                 company == IF company_text = <<>> THEN None ELSE Some(company_text)
                 score == _parse_int(info.audience_rating)
                 count == _parse_int(info.audience_count)
                 genre_upper == upper(genre_text)
             IN  IF genre_upper \notin DOMAIN _GENRE_TO_CLASS
                 THEN [ok |-> FALSE, err |-> "UnknownGenre", reg |-> d.reg, nid |-> d.nid]
                 ELSE LET m == Movie_post_init(_GENRE_TO_CLASS[genre_upper], rt_link,
                                   title, Some(r.rating), d.persons, release_date,
                                   streaming_date, length, company, score, count)
                      IN  IF ~m.ok
                          THEN [ok |-> FALSE, err |-> m.err, reg |-> d.reg, nid |-> d.nid]
                          ELSE [ok |-> TRUE, movie |-> m.movie, reg |-> d.reg,
                                nid |-> d.nid + 1]

\* create_movie(info): the movie or the ValueError, and the Person registry
\* as the call leaves it
create_movie(info, ratings, reg, id) ==
    LET rt_link == strip(OrEmpty(info.rotten_tomatoes_link))
        title == strip(OrEmpty(info.movie_title))
        rating_code == strip(OrEmpty(info.content_rating))
        genre_text == strip(OrEmpty(info.genre))
        fail(e) == [ok |-> FALSE, err |-> e, reg |-> reg, nid |-> id]
    IN  IF rt_link = <<>> THEN fail("MissingField rotten_tomatoes_link")
        ELSE IF title = <<>> THEN fail("MissingField movie_title")
        ELSE IF rating_code = <<>> THEN fail("MissingField content_rating")
        ELSE IF genre_text = <<>> THEN fail("MissingField genre")
        ELSE LET r == get_rating(Some(rating_code), ratings)
             IN  IF ~r.ok THEN fail(r.err)
        ELSE LET d == _parse_directors(info.directors, reg, id)
             IN  IF ~d.ok THEN [ok |-> FALSE, err |-> d.err, reg |-> d.reg, nid |-> d.nid]
        ELSE LET release_date == _parse_date(info.original_release_date)
                 streaming_date == _parse_date(info.streaming_release_date)
                 runtime == _parse_int(info.runtime)
                 length == IF IsNone(runtime) THEN 0 ELSE Val(runtime)
                 company_text == strip(OrEmpty(info.production_company))
                 company == IF company_text = <<>> THEN None ELSE Some(company_text)
                 score == _parse_int(info.audience_rating)
                 count == _parse_int(info.audience_count)
                 genre_upper == upper(genre_text)
             IN  IF genre_upper \notin DOMAIN _GENRE_TO_CLASS
                 THEN [ok |-> FALSE, err |-> "UnknownGenre", reg |-> d.reg, nid |-> d.nid]
                 ELSE LET m == Movie_post_init(_GENRE_TO_CLASS[genre_upper], rt_link,
                                   title, Some(r.rating), d.persons, release_date,
                                   streaming_date, length, company, score, count)
                      IN  IF ~m.ok
                          THEN [ok |-> FALSE, err |-> m.err, reg |-> d.reg, nid |-> d.nid]
                          ELSE [ok |-> TRUE, movie |-> m.movie, reg |-> d.reg,
                                nid |-> d.nid + 1]

-----------------------------------------------------------------------------
(* Program start and the registry operations *)

NoOutput == [op |-> "none"]

\* the state after the modules are imported and before load_movies runs
Boot ==
    /\ MovieRating_instances = RatingModuleLoaded.reg
    /\ Person_instances = EmptyRegistry
    /\ nextId = RatingModuleLoaded.nid
    /\ line = 0
    /\ movies = <<>>
    /\ errors = 0
    /\ pc = "load"
    /\ calls = <<>>
    /\ export_file = None
    /\ threads = <<>>
    /\ out = NoOutput

\* the program started on an empty csv file
Init == Boot /\ source = <<>>

\* the csv files of at most n rows drawn from rows
Files(rows, n) == UNION {[1..k -> rows] : k \in 0..n}

\* one call get_person(fullname)
call_get_person(fullname) ==
    LET g == get_person(fullname, Person_instances, nextId)
    IN  /\ Person_instances' = g.reg
        /\ nextId' = g.nid
        /\ calls' = Append(calls, [arg |-> fullname, ok |-> g.ok,
                                   result |-> IF g.ok THEN Some(g.person) ELSE None,
                                   count |-> get_person_count(g.reg)])
        /\ UNCHANGED <<threads, MovieRating_instances, source, line, movies, errors, pc, out, export_file>>

\* one call get_rating(code)
call_get_rating(code) ==
    LET g == get_rating(code, MovieRating_instances)
    IN  /\ calls' = Append(calls, [arg |-> code, ok |-> g.ok,
                                   result |-> IF g.ok THEN Some(g.rating) ELSE None,
                                   count |-> Cardinality(DOMAIN MovieRating_instances)])
        /\ UNCHANGED <<threads, MovieRating_instances, Person_instances, nextId, source,
                       line, movies, errors, pc, out, export_file>>

\* one construction MovieRating(code, description)
call_MovieRating(code, description) ==
    LET r == MovieRating_post_init(code, description, MovieRating_instances, nextId)
    IN  /\ MovieRating_instances' = r.reg
        /\ nextId' = r.nid
        /\ calls' = Append(calls, [arg |-> Some(code), description |-> description,
                                   ok |-> r.ok, err |-> IF r.ok THEN "" ELSE r.err,
                                   result |-> IF r.ok THEN Some(r.rating) ELSE None,
                                   count |-> Cardinality(DOMAIN r.reg)])
        /\ UNCHANGED <<threads, Person_instances, source, line, movies, errors, pc, out, export_file>>

-----------------------------------------------------------------------------
(* PersonRegistry under any sequence of get_person calls *)

MaxPersonCalls == 3

\* names passed to get_person: raw is the argument, trimmed and who are what
\* the argument is without surrounding blanks and whom it names
NameCases ==
    {[raw |-> <<"A", "l">>,    trimmed |-> <<"A", "l">>,    who |-> "al"],
     [raw |-> <<"A", "L">>,    trimmed |-> <<"A", "L">>,    who |-> "al"],
     [raw |-> <<" ", "a", "l", " ">>,  trimmed |-> <<"a", "l">>,    who |-> "al"],
     [raw |-> <<"B", "o", " ">>,   trimmed |-> <<"B", "o">>,    who |-> "bo"],
     [raw |-> <<" ", "b", "O">>,   trimmed |-> <<"b", "O">>,    who |-> "bo"],
     [raw |-> <<"A", "l", " ", "B", "o">>, trimmed |-> <<"A", "l", " ", "B", "o">>, who |-> "al bo"],
     [raw |-> <<"a", "l", " ", " ", "B", "O", " ">>, trimmed |-> <<"a", "l", " ", " ", "B", "O">>, who |-> "al  bo"],
     [raw |-> <<" ">>,     trimmed |-> <<>>,     who |-> ""],
     [raw |-> <<>>,     trimmed |-> <<>>,     who |-> ""]}

NameCase(raw) == CHOOSE c \in NameCases : c.raw = raw

PersonCall ==
    /\ Len(calls) < MaxPersonCalls
    /\ \E c \in NameCases : call_get_person(Some(c.raw))

PersonCallNone ==
    /\ Len(calls) < MaxPersonCalls
    /\ call_get_person(None)

NextPerson == PersonCall \/ PersonCallNone

SpecPerson == Init /\ [][NextPerson]_vars

\* the calls made with a non-empty name
NamedCalls == {i \in 1..Len(calls) : ~IsNone(calls[i].arg) /\ NameCase(Val(calls[i].arg)).who # ""}

WhoOf(i) == NameCase(Val(calls[i].arg)).who

FirstCallFor(i) == SetMin({j \in NamedCalls : WhoOf(j) = WhoOf(i)})

\* C1: two get_person calls whose trimmed names are equal ignoring case
\* return the identical Person; after every call get_person_count is the
\* number of distinct persons named so far; the fullname of each Person is
\* the trimmed name of the first call made for it.
C1_PersonFlyweight ==
    /\ \A i \in NamedCalls :
          /\ calls[i].ok
          /\ Val(calls[i].result) = Val(calls[FirstCallFor(i)].result)
          /\ Val(calls[i].result).fullname
                = NameCase(Val(calls[FirstCallFor(i)].arg)).trimmed
          /\ calls[i].count = Cardinality({WhoOf(j) : j \in {k \in NamedCalls : k <= i}})
          /\ \A j \in NamedCalls :
                WhoOf(j) # WhoOf(i) => Val(calls[j].result).id # Val(calls[i].result).id
    /\ get_person_count(Person_instances) = Cardinality({WhoOf(j) : j \in NamedCalls})
    /\ \A i \in 1..Len(calls) : i > 1 => calls[i].count >= calls[i - 1].count

\* a second call with another casing and other blanks of a name already
\* registered, after a call for somebody else
C1_Witness ==
    \E i, j, k \in NamedCalls :
        /\ i < j /\ j < k
        /\ WhoOf(i) = WhoOf(k) /\ WhoOf(j) # WhoOf(i)
        /\ Val(calls[i].arg) # Val(calls[k].arg)
        /\ NameCase(Val(calls[i].arg)).trimmed # NameCase(Val(calls[k].arg)).trimmed
        /\ calls[k].ok /\ calls[k].count = 2

-----------------------------------------------------------------------------
(* RatingRegistry under any sequence of get_rating calls *)

MaxRatingCalls == 3

\* codes passed to get_rating: raw is the argument, canon the code of
\* MovieRating_order it is a casing/whitespace variant of (<<>> if of none)
RatingCases ==
    {[raw |-> <<"N", "R">>,      canon |-> <<"N", "R">>],
     [raw |-> <<" ", "n", "r">>,     canon |-> <<"N", "R">>],
     [raw |-> <<"G">>,       canon |-> <<"G">>],
     [raw |-> <<"g", " ">>,      canon |-> <<"G">>],
     [raw |-> <<"P", "G">>,      canon |-> <<"P", "G">>],
     [raw |-> <<" ", "P", "g", " ">>,    canon |-> <<"P", "G">>],
     [raw |-> <<"P", "G", "-", "1", "3">>,   canon |-> <<"P", "G", "-", "1", "3">>],
     [raw |-> <<"p", "g", "-", "1", "3", " ">>,  canon |-> <<"P", "G", "-", "1", "3">>],
     [raw |-> <<"R">>,       canon |-> <<"R">>],
     [raw |-> <<" ", " ", "r">>,     canon |-> <<"R">>],
     [raw |-> <<"N", "C", "1", "7">>,    canon |-> <<"N", "C", "1", "7">>],
     [raw |-> <<"N", "c", "1", "7", " ">>,   canon |-> <<"N", "C", "1", "7">>],
     [raw |-> <<"P", "G", "1", "3">>,    canon |-> <<>>],
     [raw |-> <<"P", " ", "G">>,     canon |-> <<>>],
     [raw |-> <<"X">>,       canon |-> <<>>],
     [raw |-> <<>>,       canon |-> <<>>]}

RatingCase(raw) == CHOOSE c \in RatingCases : c.raw = raw

RatingCall ==
    /\ Len(calls) < MaxRatingCalls
    /\ \E c \in RatingCases : call_get_rating(Some(c.raw))

RatingCallNone ==
    /\ Len(calls) < MaxRatingCalls
    /\ call_get_rating(None)

NextRating == RatingCall \/ RatingCallNone

SpecRating == Init /\ [][NextRating]_vars

\* the calls made with a variant of one of the six codes
ValidRatingCalls ==
    {i \in 1..Len(calls) : ~IsNone(calls[i].arg) /\ RatingCase(Val(calls[i].arg)).canon # <<>>}

CanonOf(i) == RatingCase(Val(calls[i].arg)).canon

\* C2: get_rating is idempotent for the six codes: every call with a casing
\* or whitespace variant of a code returns the one MovieRating of that code,
\* and no call adds to or changes the registry.
C2_RatingIdempotent ==
    /\ \A i \in ValidRatingCalls :
          /\ calls[i].ok
          /\ Val(calls[i].result).code = CanonOf(i)
          /\ \A j \in ValidRatingCalls :
                (CanonOf(j) = CanonOf(i)) <=> (Val(calls[j].result).id = Val(calls[i].result).id)
    /\ MovieRating_instances = RatingModuleLoaded.reg
    /\ \A i \in 1..Len(calls) : calls[i].count = Len(MovieRating_order)

\* the same code asked for three times, in three different spellings
C2_Witness ==
    /\ Len(calls) = 3
    /\ \A i \in 1..3 : i \in ValidRatingCalls /\ CanonOf(i) = <<"P", "G", "-", "1", "3">>
    /\ \E i \in 1..3 : Val(calls[i].arg) # Val(calls[1].arg)
    /\ Val(calls[3].result).id = Val(calls[1].result).id

-----------------------------------------------------------------------------
(* eval_02.py: load_movies *)

\* a csv.DictReader row: every column is an Optional str
Row(link, title, rating, genre, directors, released, streamed, runtime, company, score, count) ==
    [rotten_tomatoes_link |-> link, movie_title |-> title,
     content_rating |-> rating, genre |-> genre, directors |-> directors,
     original_release_date |-> released, streaming_release_date |-> streamed,
     runtime |-> runtime, production_company |-> company,
     audience_rating |-> score, audience_count |-> count]

\* load_movies that undoes the registry writes of a row that fails
load_row_rollback ==
    /\ pc = "load"
    /\ line < Len(source)
    /\ LET c == create_movie(source[line + 1], MovieRating_instances, Person_instances, nextId)
       IN  /\ Person_instances' = IF c.ok THEN c.reg ELSE Person_instances
           /\ nextId' = c.nid
           /\ IF c.ok
              THEN movies' = Append(movies, c.movie) /\ errors' = errors
              ELSE movies' = movies /\ errors' = errors + 1
    /\ line' = line + 1
    /\ UNCHANGED <<threads, MovieRating_instances, source, pc, calls, out, export_file>>

\* load_movies whose loop ends at the first row that fails
load_row_abort ==
    /\ pc = "load"
    /\ line < Len(source)
    /\ LET c == create_movie(source[line + 1], MovieRating_instances, Person_instances, nextId)
       IN  /\ Person_instances' = c.reg
           /\ nextId' = c.nid
           /\ IF c.ok
              THEN movies' = Append(movies, c.movie) /\ errors' = errors /\ line' = line + 1
              ELSE movies' = movies /\ errors' = errors + 1 /\ line' = Len(source)
    /\ UNCHANGED <<threads, MovieRating_instances, source, pc, calls, out, export_file>>

\* the body of load_movies' loop for the row the reader yields next
load_row ==
    /\ pc = "load"
    /\ line < Len(source)
    /\ LET c == create_movie(source[line + 1], MovieRating_instances, Person_instances, nextId)
       IN  /\ Person_instances' = c.reg
           /\ nextId' = c.nid
           /\ IF c.ok
              THEN movies' = Append(movies, c.movie) /\ errors' = errors
              ELSE movies' = movies /\ errors' = errors + 1
    /\ line' = line + 1
    /\ UNCHANGED <<threads, MovieRating_instances, source, pc, calls, out, export_file>>

\* the reader is exhausted: load_movies returns and main enters the menu loop
finish_load ==
    /\ pc = "load"
    /\ line = Len(source)
    /\ pc' = "menu"
    /\ out' = [op |-> "load", loaded |-> Len(movies), errors |-> errors]
    /\ UNCHANGED <<threads, MovieRating_instances, Person_instances, nextId, source,
                   line, movies, errors, calls, export_file>>

\* one call create_movie(info)
call_create_movie(info) ==
    LET c == create_movie(info, MovieRating_instances, Person_instances, nextId)
    IN  /\ Person_instances' = c.reg
        /\ nextId' = c.nid
        /\ calls' = Append(calls, [arg |-> info, ok |-> c.ok,
                                   err |-> IF c.ok THEN "" ELSE c.err,
                                   result |-> IF c.ok THEN Some(c.movie) ELSE None])
        /\ UNCHANGED <<threads, MovieRating_instances, source, line, movies, errors, pc, out, export_file>>

-----------------------------------------------------------------------------
(* load_movies over any sequence of good and bad rows *)

MaxLoadRows == 3

\* a row that loads, but for the given link, title, rating and genre
PlainRow(link, title, rating, genre) ==
    Row(link, title, rating, genre, Some(<<"A", "l", ",", " ", "B", "o">>), Some(<<"1", "9", "9", "9", "-", "1", "2", "-", "3", "1">>), None,
        Some(<<"9", "5">>), Some(<<"F", "o", "x">>), Some(<<"8", "5">>), Some(<<"1", "5", "0">>))

\* rows of the source file: whether create_movie accepts the row, and the
\* link the record then carries
LoadCases ==
    {[row |-> PlainRow(Some(<<"m", "1">>), Some(<<"U", "p">>), Some(<<"P", "G">>), Some(<<"C", "o", "m", "e", "d", "y">>)),
      good |-> TRUE, link |-> <<"m", "1">>],
     [row |-> PlainRow(Some(<<" ", "m", "2", " ">>), Some(<<"E", "d">>), Some(<<"r">>), Some(<<"D", "R", "A", "M", "A">>)),
      good |-> TRUE, link |-> <<"m", "2">>],
     [row |-> PlainRow(Some(<<"m", "3">>), Some(<<"I", "t">>), Some(<<"R">>), Some(<<"H", "O", "R", "R", "O", "R", "-", "i", "s", "h">>)),
      good |-> FALSE, link |-> <<"m", "3">>],
     [row |-> PlainRow(Some(<<"m", "4">>), Some(<<"P", "i">>), Some(<<"P", "G", "1", "3">>), Some(<<"D", "r", "a", "m", "a">>)),
      good |-> FALSE, link |-> <<"m", "4">>],
     [row |-> PlainRow(Some(<<"m", "5">>), Some(<<" ">>), Some(<<"G">>), Some(<<"W", "e", "s", "t", "e", "r", "n">>)),
      good |-> FALSE, link |-> <<"m", "5">>],
     [row |-> PlainRow(Some(<<"m", "6">>), Some(<<"O", "z">>), Some(<<"G">>), None),
      good |-> FALSE, link |-> <<"m", "6">>]}

LoadCase(row) == CHOOSE c \in LoadCases : c.row = row

LoadRows == {c.row : c \in LoadCases}

InitLoad == Boot /\ source \in Files(LoadRows, MaxLoadRows)

NextLoad == load_row \/ finish_load

SpecLoad == InitLoad /\ [][NextLoad]_vars

\* the links of the rows of s that create_movie accepts, in order
RECURSIVE GoodLinks(_)
GoodLinks(s) ==
    IF s = <<>> THEN <<>>
    ELSE (IF LoadCase(s[1]).good THEN <<LoadCase(s[1]).link>> ELSE <<>>)
         \o GoodLinks(Tail(s))

\* C3: load_movies puts every row through create_movie; a failing row is
\* counted and the next row is processed, so loaded + errors = rows read and
\* the collection is the records of the non-failing rows in source order.
C3_LoadContinues ==
    /\ Len(movies) + errors = line
    /\ [i \in 1..Len(movies) |-> movies[i].rt_link] = GoodLinks(SubSeq(source, 1, line))
    /\ pc = "menu" => /\ line = Len(source)
                      /\ out.loaded = Len(GoodLinks(source))
                      /\ out.loaded + out.errors = Len(source)

\* a bad row between two good ones: both good rows are in the collection
C3_Witness ==
    /\ pc = "menu"
    /\ Len(source) = 3
    /\ LoadCase(source[1]).good /\ ~LoadCase(source[2]).good /\ LoadCase(source[3]).good
    /\ Len(movies) = 2 /\ errors = 1

-----------------------------------------------------------------------------
(* create_movie on one row *)

\* values of the four required columns that are non-empty after trim and,
\* for content_rating and genre, name a rating code or a genre of the table
GoodLinkTexts == {Some(<<"m", "1">>), Some(<<" ", "m", " ", "2", " ">>)}

BadLinkTexts == {None, Some(<<>>), Some(<<" ", " ">>)}

GoodTitleTexts == {Some(<<"U", "p">>), Some(<<" ", "M", "r", " ", "X">>)}

BadTitleTexts == {None, Some(<<" ">>)}

GoodRatingTexts == {Some(<<"P", "G">>), Some(<<" ", "p", "g", "-", "1", "3", " ">>), Some(<<"n", "c", "1", "7">>), Some(<<"N", "r">>)}

MissingRatingTexts == {None, Some(<<>>)}

UnknownRatingTexts == {Some(<<"P", "G", "1", "3">>), Some(<<"X">>), Some(<<"N", "C", "-", "1", "7">>)}

GoodGenreTexts == {Some(<<"C", "o", "m", "e", "d", "y">>), Some(<<" ", "h", "o", "r", "r", "o", "r", " ">>), Some(<<"A", "C", "T", "I", "O", "N", " ", "&", " ", "A", "D", "V", "E", "N", "T", "U", "R", "E">>),
                   Some(<<"S", "c", "i", "e", "n", "c", "e", " ", "F", "i", "c", "t", "i", "o", "n", " ", "&", " ", "F", "a", "n", "t", "a", "s", "y">>)}

MissingGenreTexts == {None, Some(<<" ">>)}

UnknownGenreTexts == {Some(<<"H", "O", "R", "R", "O", "R", "-", "i", "s", "h">>), Some(<<"A", "c", "t", "i", "o", "n", "A", "d", "v", "e", "n", "t", "u", "r", "e">>), Some(<<"C", "O", "M", "E", "D", "Y", ",", "D", "R", "A", "M", "A">>)}

\* values of the seven optional columns: absent, empty, malformed, well-formed
DirectorsTexts ==
    <<Some(<<"A", "l", ",", " ", "B", "o">>), None, Some(<<>>), Some(<<" ", ",", " ", ",">>), Some(<<",">>), Some(<<"A", "l", ",", ",", "a", "l">>),
      Some(<<" ", " ">>), Some(<<" ", "B", "o", " ", ",", "A", "l", " ", ",", " ", "B", "O">>)>>

DateTexts ==
    <<Some(<<"1", "9", "9", "9", "-", "1", "2", "-", "3", "1">>), None, Some(<<>>), Some(<<"1", "9", "9", "9", "-", "0", "2", "-", "3", "0">>), Some(<<"3", "1", "-", "1", "2", "-", "1", "9", "9", "9">>),
      Some(<<"s", "o", "o", "n">>), Some(<<"1", "9", "9", "9", "-", "1", "-", "1">>), Some(<<" ", "2", "0", "0", "0", "-", "0", "2", "-", "2", "9", " ">>)>>

RuntimeTexts ==
    <<Some(<<"9", "5">>), None, Some(<<>>), Some(<<"-", "5">>), Some(<<"9", "x">>), Some(<<" ", "7", " ">>), Some(<<"1", " ", "0">>),
      Some(<<"-">>)>>

CompanyTexts == <<Some(<<"F", "o", "x">>), None, Some(<<>>), Some(<<" ", " ">>), Some(<<" ", "A", " ", "&", " ", "B", " ">>)>>

NumberTexts ==
    <<Some(<<"8", "5">>), None, Some(<<>>), Some(<<"n", "-", "a">>), Some(<<"-", "1">>), Some(<<"8", " ", "5">>), Some(<<" ", "1", "0", "0", " ">>),
      Some(<<"0">>)>>

At(texts, k) == texts[((k - 1) % Len(texts)) + 1]

\* the optional columns of a row, as <<directors, released, streamed, runtime,
\* company, score, count>>: the k-th value in every column, or the first
\* value in every column but one
OptionalColumns ==
    {<<At(DirectorsTexts, k), At(DateTexts, k), At(DateTexts, k + 1), At(RuntimeTexts, k),
       At(CompanyTexts, k), At(NumberTexts, k), At(NumberTexts, k + 3)>> : k \in 1..8}
    \cup {<<At(DirectorsTexts, k), At(DateTexts, 1), At(DateTexts, 1), At(RuntimeTexts, 1),
            At(CompanyTexts, 1), At(NumberTexts, 1), At(NumberTexts, 1)>> : k \in 1..8}
    \cup {<<At(DirectorsTexts, 1), At(DateTexts, k), At(DateTexts, 9 - k), At(RuntimeTexts, 1),
            At(CompanyTexts, 1), At(NumberTexts, 1), At(NumberTexts, 1)>> : k \in 1..8}
    \cup {<<At(DirectorsTexts, 1), At(DateTexts, 1), At(DateTexts, 1), At(RuntimeTexts, k),
            At(CompanyTexts, k), At(NumberTexts, 1), At(NumberTexts, 1)>> : k \in 1..8}
    \cup {<<At(DirectorsTexts, 1), At(DateTexts, 1), At(DateTexts, 1), At(RuntimeTexts, 1),
            At(CompanyTexts, 1), At(NumberTexts, k), At(NumberTexts, 9 - k)>> : k \in 1..8}

CreateRows ==
    {Row(l, t, r, g, o[1], o[2], o[3], o[4], o[5], o[6], o[7]) :
        l \in GoodLinkTexts \cup BadLinkTexts,
        t \in GoodTitleTexts \cup BadTitleTexts,
        r \in GoodRatingTexts \cup MissingRatingTexts \cup UnknownRatingTexts,
        g \in GoodGenreTexts \cup MissingGenreTexts \cup UnknownGenreTexts,
        o \in OptionalColumns}

CreateCall == calls = <<>> /\ \E row \in CreateRows : call_create_movie(row)

NextCreate == CreateCall

SpecCreate == Init /\ [][NextCreate]_vars

RequiredColumnsGood(row) ==
    /\ row.rotten_tomatoes_link \in GoodLinkTexts
    /\ row.movie_title \in GoodTitleTexts
    /\ row.content_rating \in GoodRatingTexts
    /\ row.genre \in GoodGenreTexts

\* C10: create_movie succeeds exactly when the four required columns are
\* non-empty after trim, the rating code is one of the six and the genre is
\* in the table; what the seven optional columns hold never makes the row
\* fail, and no EmptyName error comes out of the directors column.
C10_CreateSucceedsIff ==
    \A i \in 1..Len(calls) :
        /\ calls[i].ok <=> RequiredColumnsGood(calls[i].arg)
        /\ calls[i].err \notin {"EmptyName", "DuplicatePerson", "InvalidRecord"}

\* a row whose required columns are good and whose optional columns hold
\* empty director names and malformed dates and numbers was accepted
C10_Witness ==
    /\ Len(calls) = 1
    /\ calls[1].ok
    /\ calls[1].arg.directors = Some(<<" ", ",", " ", ",">>)
    /\ calls[1].arg.original_release_date = Some(<<"1", "9", "9", "9", "-", "0", "2", "-", "3", "0">>)
    /\ calls[1].arg.runtime = Some(<<"-", "5">>)
    /\ calls[1].arg.audience_rating = Some(<<"n", "-", "a">>)
    /\ Val(calls[1].result).directors = <<>>
    /\ IsNone(Val(calls[1].result).release_date)
    /\ IsNone(Val(calls[1].result).score)

-----------------------------------------------------------------------------
(* the record create_movie returns *)

\* the length a record has for each value of the runtime column
RuntimeLengths ==
    {<<Some(<<"9", "5">>), 95>>, <<None, 0>>, <<Some(<<>>), 0>>, <<Some(<<"-", "5">>), 0>>,
     <<Some(<<"9", "x">>), 0>>, <<Some(<<" ", "7", " ">>), 7>>, <<Some(<<"1", " ", "0">>), 0>>, <<Some(<<"-">>), 0>>}

LengthFor(text) == (CHOOSE p \in RuntimeLengths : p[1] = text)[2]

\* the six rating objects of the registry
Ratings == {MovieRating_instances[k] : k \in DOMAIN MovieRating_instances}

\* C11: every record create_movie returns has a non-empty rt_link, a
\* non-empty title, a rating of the registry and a length >= 0; a negative,
\* absent, empty or malformed runtime gives length 0 and never a failure.
C11_RecordInvariants ==
    \A i \in 1..Len(calls) :
        /\ calls[i].ok =>
              LET m == Val(calls[i].result)
              IN  /\ m.rt_link # <<>>
                  /\ m.title # <<>>
                  /\ m.rating \in Ratings
                  /\ m.length >= 0
                  /\ m.length = LengthFor(calls[i].arg.runtime)
        /\ RequiredColumnsGood(calls[i].arg) => calls[i].ok

\* a row with a negative runtime was accepted and its record has length 0
C11_Witness ==
    /\ Len(calls) = 1
    /\ calls[1].ok
    /\ calls[1].arg.runtime = Some(<<"-", "5">>)
    /\ Val(calls[1].result).length = 0

\* the failure of the earliest step a row does not pass: the four required
\* columns in order, then the rating code, then the genre; "" for no failure
ExpectedError(row) ==
    IF row.rotten_tomatoes_link \in BadLinkTexts THEN "MissingField rotten_tomatoes_link"
    ELSE IF row.movie_title \in BadTitleTexts THEN "MissingField movie_title"
    ELSE IF row.content_rating \in MissingRatingTexts THEN "MissingField content_rating"
    ELSE IF row.genre \in MissingGenreTexts THEN "MissingField genre"
    ELSE IF row.content_rating \in UnknownRatingTexts THEN "UnknownRatingCode"
    ELSE IF row.genre \in UnknownGenreTexts THEN "UnknownGenre"
    ELSE ""

\* C17: a row that breaks several rules fails with the error of the earliest
\* step: MissingField in the order rotten_tomatoes_link, movie_title,
\* content_rating, genre, before UnknownRatingCode, before UnknownGenre.
C17_ErrorPrecedence ==
    \A i \in 1..Len(calls) : calls[i].err = ExpectedError(calls[i].arg)

\* a row with an unknown rating code and an empty genre failed with
\* MissingField(genre)
C17_Witness ==
    /\ Len(calls) = 1
    /\ calls[1].arg.rotten_tomatoes_link \in GoodLinkTexts
    /\ calls[1].arg.movie_title \in GoodTitleTexts
    /\ calls[1].arg.content_rating = Some(<<"P", "G", "1", "3">>)
    /\ calls[1].arg.genre = Some(<<" ">>)
    /\ calls[1].err = "MissingField genre"

-----------------------------------------------------------------------------
(* eval_02.py: the menu operations *)

\* menu option 1
menu_print_movie_count ==
    /\ pc = "menu"
    /\ out' = [op |-> "count", count |-> Len(movies)]
    /\ UNCHANGED <<threads, MovieRating_instances, Person_instances, nextId, source, line,
                   movies, errors, pc, calls, export_file>>

\* counts[genre_name] = counts.get(genre_name, 0) + 1 on a dict kept as the
\* sequence of its items in insertion order
genre_increment(counts, genre_name) ==
    IF \E i \in 1..Len(counts) : counts[i][1] = genre_name
    THEN [i \in 1..Len(counts) |->
             IF counts[i][1] = genre_name THEN <<counts[i][1], counts[i][2] + 1>>
             ELSE counts[i]]
    ELSE Append(counts, <<genre_name, 1>>)

\* the counting loop of menu_print_genre_counts over movies[i..]
RECURSIVE genre_counts(_, _, _)
genre_counts(ms, i, counts) ==
    IF i > Len(ms) THEN counts
    ELSE genre_counts(ms, i + 1, genre_increment(counts, class_name[ms[i].cls]))

\* the sort key without the name: equal counts stay in insertion order
genre_item_less_by_count(a, b) == (0 - a[2]) < (0 - b[2])

\* key=lambda item: (-item[1], item[0]) compared as tuples
genre_item_less(a, b) ==
    \/ (0 - a[2]) < (0 - b[2])
    \/ ((0 - a[2]) = (0 - b[2]) /\ StrLess(a[1], b[1]))

\* the sort of counts.items() by that key: stable insertion of item x into s
RECURSIVE insert_genre_item(_, _)
insert_genre_item(x, s) ==
    IF s = <<>> THEN <<x>>
    ELSE IF genre_item_less(x, s[1]) THEN <<x>> \o s
    ELSE <<s[1]>> \o insert_genre_item(x, Tail(s))

RECURSIVE sorted_items(_)
sorted_items(s) ==
    IF s = <<>> THEN <<>>
    ELSE insert_genre_item(s[Len(s)], sorted_items(SubSeq(s, 1, Len(s) - 1)))

\* menu option 2
menu_print_genre_counts ==
    /\ pc = "menu"
    /\ out' = [op |-> "genres",
               lines |-> sorted_items(genre_counts(movies, 1, <<>>))]
    /\ UNCHANGED <<threads, MovieRating_instances, Person_instances, nextId, source, line,
                   movies, errors, pc, calls, export_file>>

\* menu option 3
menu_print_person_count ==
    /\ pc = "menu"
    /\ out' = [op |-> "persons", count |-> get_person_count(Person_instances)]
    /\ UNCHANGED <<threads, MovieRating_instances, Person_instances, nextId, source, line,
                   movies, errors, pc, calls, export_file>>

\* the loop of menu_print_highest_score_movies over movies[i..]
RECURSIVE highest_score(_, _, _, _)
highest_score(ms, i, max_score, best_movies) ==
    IF i > Len(ms) THEN [max_score |-> max_score, best_movies |-> best_movies]
    ELSE LET rs == relevant_score(ms[i])
         IN  IF ~rs[1] THEN highest_score(ms, i + 1, max_score, best_movies)
             ELSE IF rs[2] > max_score THEN highest_score(ms, i + 1, rs[2], <<ms[i]>>)
             ELSE IF rs[2] = max_score
                  THEN highest_score(ms, i + 1, max_score, Append(best_movies, ms[i]))
             ELSE highest_score(ms, i + 1, max_score, best_movies)

\* menu option 4
menu_print_highest_score_movies ==
    /\ pc = "menu"
    /\ LET h == highest_score(movies, 1, -1, <<>>)
       IN  out' = IF h.best_movies = <<>>
                  THEN [op |-> "highest", found |-> FALSE, max_score |-> 0, titles |-> <<>>]
                  ELSE [op |-> "highest", found |-> TRUE, max_score |-> h.max_score,
                        titles |-> [k \in 1..Len(h.best_movies) |-> h.best_movies[k].title]]
    /\ UNCHANGED <<threads, MovieRating_instances, Person_instances, nextId, source, line,
                   movies, errors, pc, calls, export_file>>

\* director_counts[director] = director_counts.get(director, 0) + 1 on a
\* dict kept as the sequence of its items in insertion order; Person keys are
\* compared with Person.__eq__
director_increment(counts, director) ==
    IF \E i \in 1..Len(counts) : Person_eq(counts[i][1], director)
    THEN [i \in 1..Len(counts) |->
             IF Person_eq(counts[i][1], director) THEN <<counts[i][1], counts[i][2] + 1>>
             ELSE counts[i]]
    ELSE Append(counts, <<director, 1>>)

\* the inner loop of menu_print_most_active_director over directors[j..]
RECURSIVE count_directors(_, _, _)
count_directors(directors, j, counts) ==
    IF j > Len(directors) THEN counts
    ELSE count_directors(directors, j + 1, director_increment(counts, directors[j]))

\* the outer loop of menu_print_most_active_director over movies[i..]
RECURSIVE director_counts(_, _, _)
director_counts(ms, i, counts) ==
    IF i > Len(ms) THEN counts
    ELSE director_counts(ms, i + 1, count_directors(ms[i].directors, 1, counts))

\* menu option 5
menu_print_most_active_director ==
    /\ pc = "menu"
    /\ LET counts == director_counts(movies, 1, <<>>)
           max_count == SetMax({counts[k][2] : k \in 1..Len(counts)})
           is_max(item) == item[2] = max_count
           most_active == SelectSeq(counts, is_max)
       IN  out' = IF counts = <<>>
                  THEN [op |-> "directors", found |-> FALSE, max_count |-> 0,
                        most_active |-> <<>>, counts |-> counts]
                  ELSE [op |-> "directors", found |-> TRUE, max_count |-> max_count,
                        most_active |-> [k \in 1..Len(most_active) |-> most_active[k][1]],
                        counts |-> counts]
    /\ UNCHANGED <<threads, MovieRating_instances, Person_instances, nextId, source, line,
                   movies, errors, pc, calls, export_file>>

\* min(movie.length for movie in movies) over a non-empty list
min_length(ms) == SetMin({ms[i].length : i \in 1..Len(ms)})

\* max(movie.length for movie in movies) over a non-empty list
max_length(ms) == SetMax({ms[i].length : i \in 1..Len(ms)})

\* [movie for movie in movies if movie.length == n], from movie i on
RECURSIVE with_length(_, _, _)
with_length(ms, i, n) ==
    IF i > Len(ms) THEN <<>>
    ELSE (IF ms[i].length = n THEN <<ms[i]>> ELSE <<>>) \o with_length(ms, i + 1, n)

\* menu option 6 whose shortest list takes the first record only
menu_print_shortest_first_only ==
    /\ pc = "menu"
    /\ IF movies = <<>>
       THEN out' = [op |-> "extremes", none |-> TRUE]
       ELSE out' = [op |-> "extremes", none |-> FALSE,
                    min_length |-> min_length(movies),
                    max_length |-> max_length(movies),
                    shortest |-> SubSeq(with_length(movies, 1, min_length(movies)), 1, 1),
                    longest |-> with_length(movies, 1, max_length(movies))]
    /\ UNCHANGED <<threads, MovieRating_instances, Person_instances, nextId, source, line,
                   movies, errors, pc, calls, export_file>>

\* menu option 6
menu_print_shortest_and_longest ==
    /\ pc = "menu"
    /\ IF movies = <<>>
       THEN out' = [op |-> "extremes", none |-> TRUE]
       ELSE out' = [op |-> "extremes", none |-> FALSE,
                    min_length |-> min_length(movies),
                    max_length |-> max_length(movies),
                    shortest |-> with_length(movies, 1, min_length(movies)),
                    longest |-> with_length(movies, 1, max_length(movies))]
    /\ UNCHANGED <<threads, MovieRating_instances, Person_instances, nextId, source, line,
                   movies, errors, pc, calls, export_file>>

\* the loop of menu_print_scary_horror over movies[i..]
RECURSIVE scary_movies(_, _, _)
scary_movies(ms, i, ratings) ==
    IF i > Len(ms) THEN <<>>
    ELSE (IF ms[i].cls = "Horror" /\ is_scary(ms[i], ratings) THEN <<ms[i]>> ELSE <<>>)
         \o scary_movies(ms, i + 1, ratings)

\* menu option 7
menu_print_scary_horror ==
    /\ pc = "menu"
    /\ LET scary == scary_movies(movies, 1, MovieRating_instances)
       IN  out' = [op |-> "scary", none |-> scary = <<>>, scary_movies |-> scary]
    /\ UNCHANGED <<threads, MovieRating_instances, Person_instances, nextId, source, line,
                   movies, errors, pc, calls, export_file>>

\* the counting loop with the upper bucket left out
RECURSIVE score_counts_below_100(_, _, _)
score_counts_below_100(ms, i, counts) ==
    IF i > Len(ms) THEN counts
    ELSE IF ~IsNone(ms[i].score) /\ 0 <= Val(ms[i].score) /\ Val(ms[i].score) < 100
         THEN score_counts_below_100(ms, i + 1,
                  [counts EXCEPT ![Val(ms[i].score)] = counts[Val(ms[i].score)] + 1])
         ELSE score_counts_below_100(ms, i + 1, counts)

\* the counting loop of menu_print_score_list over movies[i..]
RECURSIVE score_counts(_, _, _)
score_counts(ms, i, counts) ==
    IF i > Len(ms) THEN counts
    ELSE IF ~IsNone(ms[i].score) /\ 0 <= Val(ms[i].score) /\ Val(ms[i].score) <= 100
         THEN score_counts(ms, i + 1,
                  [counts EXCEPT ![Val(ms[i].score)] = counts[Val(ms[i].score)] + 1])
         ELSE score_counts(ms, i + 1, counts)

\* menu option 8
menu_print_score_list ==
    /\ pc = "menu"
    /\ LET counts == score_counts(movies, 1, [s \in 0..100 |-> 0])
       IN  out' = [op |-> "scores",
                   lines |-> [k \in 1..101 |-> <<k - 1, counts[k - 1]>>]]
    /\ UNCHANGED <<threads, MovieRating_instances, Person_instances, nextId, source, line,
                   movies, errors, pc, calls, export_file>>


\* str(n) for a natural number n
RECURSIVE nat_str(_)
nat_str(n) == IF n < 10 THEN <<DigitChar(n)>> ELSE nat_str(n \div 10) \o <<DigitChar(n % 10)>>

\* str(n) for an int, as csv.DictWriter writes it
int_str(n) == IF n < 0 THEN <<"-">> \o nat_str(0 - n) ELSE nat_str(n)

\* n written with at least w digits
RECURSIVE zero_padded(_, _)
zero_padded(n, w) ==
    IF Len(nat_str(n)) >= w THEN nat_str(n) ELSE <<"0">> \o zero_padded(n, w - 1)

\* date.isoformat()
isoformat(d) ==
    zero_padded(d.year, 4) \o <<"-">> \o zero_padded(d.month, 2) \o <<"-">> \o zero_padded(d.day, 2)

\* ", ".join(director.fullname for director in directors), from j on
RECURSIVE join_fullnames(_, _)
join_fullnames(directors, j) ==
    IF j > Len(directors) THEN <<>>
    ELSE IF j = Len(directors) THEN directors[j].fullname
    ELSE directors[j].fullname \o <<",", " ">> \o join_fullnames(directors, j + 1)

\* the row menu_export_movies_without_relevant_score writes for a movie
export_row(movie) ==
    Row(Some(movie.rt_link), Some(movie.title), Some(movie.rating.code),
        Some(class_name[movie.cls]), Some(join_fullnames(movie.directors, 1)),
        Some(IF IsNone(movie.release_date) THEN <<>> ELSE isoformat(Val(movie.release_date))),
        Some(IF IsNone(movie.streaming_date) THEN <<>> ELSE isoformat(Val(movie.streaming_date))),
        Some(int_str(movie.length)),
        Some(IF IsNone(movie.company) THEN <<>> ELSE Val(movie.company)),
        Some(IF IsNone(movie.score) THEN <<>> ELSE int_str(Val(movie.score))),
        Some(IF IsNone(movie.count) THEN <<>> ELSE int_str(Val(movie.count))))

not_relevant(movie) == ~relevant_score(movie)[1]

\* key=lambda m: m.title
title_less(a, b) == StrLess(a.title, b.title)

\* movies_without_relevant.sort(key=...): stable insertion of movie x into s
RECURSIVE insert_by_title(_, _)
insert_by_title(x, s) ==
    IF s = <<>> THEN <<x>>
    ELSE IF title_less(x, s[1]) THEN <<x>> \o s
    ELSE <<s[1]>> \o insert_by_title(x, Tail(s))

RECURSIVE sort_by_title(_)
sort_by_title(s) ==
    IF s = <<>> THEN <<>>
    ELSE insert_by_title(s[Len(s)], sort_by_title(SubSeq(s, 1, Len(s) - 1)))

\* menu option 9 that sorts the list it was given instead of the filtered copy
menu_export_sorts_collection ==
    /\ pc = "menu"
    /\ LET in_order == sort_by_title(movies)
           movies_without_relevant == SelectSeq(in_order, not_relevant)
       IN  /\ movies' = in_order
           /\ IF movies_without_relevant = <<>>
              THEN /\ out' = [op |-> "export", none |-> TRUE, exported |-> <<>>]
                   /\ export_file' = export_file
              ELSE /\ out' = [op |-> "export", none |-> FALSE, exported |-> movies_without_relevant]
                   /\ export_file' = Some([k \in 1..Len(movies_without_relevant) |->
                                              export_row(movies_without_relevant[k])])
    /\ UNCHANGED <<threads, MovieRating_instances, Person_instances, nextId, source, line,
                   errors, pc, calls>>

\* the export that writes the selection in collection order
menu_export_unsorted ==
    /\ pc = "menu"
    /\ LET movies_without_relevant == SelectSeq(movies, not_relevant)
       IN  IF movies_without_relevant = <<>>
           THEN /\ out' = [op |-> "export", none |-> TRUE, exported |-> <<>>]
                /\ export_file' = export_file
           ELSE /\ out' = [op |-> "export", none |-> FALSE, exported |-> movies_without_relevant]
                /\ export_file' = Some([k \in 1..Len(movies_without_relevant) |->
                                           export_row(movies_without_relevant[k])])
    /\ UNCHANGED <<threads, MovieRating_instances, Person_instances, nextId, source, line,
                   movies, errors, pc, calls>>

\* menu option 9
menu_export_movies_without_relevant_score ==
    /\ pc = "menu"
    /\ LET movies_without_relevant == SelectSeq(movies, not_relevant)
           in_order == sort_by_title(movies_without_relevant)
       IN  IF movies_without_relevant = <<>>
           THEN /\ out' = [op |-> "export", none |-> TRUE, exported |-> <<>>]
                /\ export_file' = export_file
           ELSE /\ out' = [op |-> "export", none |-> FALSE, exported |-> in_order]
                /\ export_file' = Some([k \in 1..Len(in_order) |-> export_row(in_order[k])])
    /\ UNCHANGED <<threads, MovieRating_instances, Person_instances, nextId, source, line,
                   movies, errors, pc, calls>>

\* menu option 10
stop ==
    /\ pc = "menu"
    /\ pc' = "stopped"
    /\ out' = NoOutput
    /\ UNCHANGED <<threads, MovieRating_instances, Person_instances, nextId, source, line,
                   movies, errors, calls, export_file>>

\* one call movies[i].relevant_score()
call_relevant_score ==
    /\ pc = "menu"
    /\ \E i \in 1..Len(movies) :
          out' = [op |-> "relevant_score", index |-> i, result |-> relevant_score(movies[i])]
    /\ UNCHANGED <<threads, MovieRating_instances, Person_instances, nextId, source, line,
                   movies, errors, pc, calls, export_file>>

\* one call movies[i].is_slapstick(), movies[i] a Comedy
call_is_slapstick ==
    /\ pc = "menu"
    /\ \E i \in 1..Len(movies) :
          /\ movies[i].cls = "Comedy"
          /\ out' = [op |-> "is_slapstick", index |-> i, result |-> is_slapstick(movies[i])]
    /\ UNCHANGED <<threads, MovieRating_instances, Person_instances, nextId, source, line,
                   movies, errors, pc, calls, export_file>>

\* the years date.today() may fall in
Years == {2018, 2019, 2026}

\* one call movies[i].is_classic()
call_is_classic ==
    /\ pc = "menu"
    /\ \E i \in 1..Len(movies), today_year \in Years :
          out' = [op |-> "is_classic", index |-> i, today_year |-> today_year,
                  result |-> is_classic(movies[i], today_year)]
    /\ UNCHANGED <<threads, MovieRating_instances, Person_instances, nextId, source, line,
                   movies, errors, pc, calls, export_file>>

-----------------------------------------------------------------------------
(* The score queries over any collection *)

MaxScoreRows == 2

\* audience_rating / audience_count texts and the integer each one stands for
ScoreTexts ==
    {[text |-> None,          value |-> None],
     [text |-> Some(<<"-", "5">>),   value |-> Some(-5)],
     [text |-> Some(<<"0">>),    value |-> Some(0)],
     [text |-> Some(<<"1", "0", "0">>),  value |-> Some(100)],
     [text |-> Some(<<"1", "5", "0">>),  value |-> Some(150)]}

CountTexts ==
    {[text |-> Some(<<>>),    value |-> None],
     [text |-> Some(<<"9", "9">>),   value |-> Some(99)],
     [text |-> Some(<<"1", "0", "0">>),  value |-> Some(100)]}

\* a row that loads, with the given title, audience_rating and audience_count
ScoreCaseOf(t, s, c) ==
    [row |-> Row(Some(<<"m", "1">>), Some(t), Some(<<"P", "G">>), Some(<<"D", "r", "a", "m", "a">>),
                 None, None, None, Some(<<"9", "5">>), None, s.text, c.text),
     title |-> t, score |-> s.value, count |-> c.value]

\* rows titled B with every audience_rating and audience_count, and rows
\* titled a with a score in range and a vote count
ScoreCases ==
    {ScoreCaseOf(<<"B">>, s, c) : s \in ScoreTexts, c \in CountTexts}
    \cup {ScoreCaseOf(<<"a">>, s, c) :
              s \in {x \in ScoreTexts : x.value \in {Some(0), Some(100)}},
              c \in {x \in CountTexts : x.value # None}}

ScoreRows == {c.row : c \in ScoreCases}

InitScores == Boot /\ source \in Files(ScoreRows, MaxScoreRows)

NextScores ==
    \/ load_row
    \/ finish_load
    \/ call_relevant_score
    \/ menu_print_highest_score_movies
    \/ menu_print_score_list
    \/ menu_export_movies_without_relevant_score

SpecScores == InitScores /\ [][NextScores]_vars

\* what is known of the i-th row of the file
ScoreCase(i) == CHOOSE c \in ScoreCases : c.row = source[i]

\* the i-th record has a present score backed by at least 100 votes
Relevant(i) ==
    /\ ~IsNone(ScoreCase(i).score)
    /\ ~IsNone(ScoreCase(i).count)
    /\ Val(ScoreCase(i).count) >= 100

\* C4: relevant_score returns (True, score) exactly when score and count are
\* present and count >= 100, and (False, 0) in every other case.
C4_RelevantScore ==
    (pc = "menu" /\ out.op = "relevant_score") =>
        out.result = IF Relevant(out.index)
                     THEN <<TRUE, Val(ScoreCase(out.index).score)>>
                     ELSE <<FALSE, 0>>

\* relevant_score was asked of a record with exactly 100 votes
C4_Witness ==
    /\ pc = "menu" /\ out.op = "relevant_score"
    /\ ScoreCase(out.index).count = Some(100)
    /\ ScoreCase(out.index).score = Some(0)
    /\ out.result = <<TRUE, 0>>


Loaded == 1..Len(movies)

RelevantRecords == {i \in Loaded : Relevant(i)}

\* the titles of the records of the set I, in collection order
RECURSIVE TitlesOf(_, _)
TitlesOf(I, i) ==
    IF i > Len(movies) THEN <<>>
    ELSE (IF i \in I THEN <<ScoreCase(i).title>> ELSE <<>>) \o TitlesOf(I, i + 1)

\* C5: the highest-score query reports "none found" exactly when no record
\* has a relevant score; otherwise it reports the maximum score among the
\* relevant records and the titles of all relevant records with that score,
\* and of no other record.
C5_HighestRelevantScore ==
    (pc = "menu" /\ out.op = "highest") =>
        /\ out.found <=> RelevantRecords # {}
        /\ out.found =>
              LET best == SetMax({Val(ScoreCase(i).score) : i \in RelevantRecords})
              IN  /\ out.max_score = best
                  /\ out.titles = TitlesOf({i \in RelevantRecords :
                                               Val(ScoreCase(i).score) = best}, 1)

\* the titles in ascending order, as Python orders str values
TitleRank(t) == CASE t = <<"B">> -> 1 [] t = <<"a">> -> 2

SameCase(m, c) == m.title = c.title /\ m.score = c.score /\ c.count = m.count

\* C7: the export query selects exactly the records whose relevant_score is
\* not relevant, sorted by title ascending, and reports "none" when there is
\* no such record; with the relevant records they partition the collection.
C7_ExportCandidates ==
    (pc = "menu" /\ out.op = "export") =>
        /\ out.none <=> (Loaded \ RelevantRecords = {})
        /\ out.none => out.exported = <<>> /\ IsNone(export_file)
        /\ ~out.none => Len(Val(export_file)) = Len(out.exported)
        /\ Len(out.exported) + Cardinality(RelevantRecords) = Len(movies)
        /\ \A c \in ScoreCases :
              Cardinality({k \in 1..Len(out.exported) : SameCase(out.exported[k], c)})
                = Cardinality({i \in Loaded \ RelevantRecords : ScoreCase(i) = c})
        /\ \A k \in 1..Len(out.exported) - 1 :
              TitleRank(out.exported[k].title) <= TitleRank(out.exported[k + 1].title)

\* two records without a relevant score, loaded in descending title order,
\* were exported
C7_Witness ==
    /\ pc = "menu" /\ out.op = "export"
    /\ Len(movies) = 2
    /\ movies[1].title = <<"a">> /\ movies[2].title = <<"B">>
    /\ ScoreCase(1).count = Some(99) /\ ScoreCase(2).score = None
    /\ Len(out.exported) = 2
    /\ out.exported[1].title = <<"B">>

RECURSIVE SumCounts(_, _)
SumCounts(lines, k) == IF k > Len(lines) THEN 0 ELSE lines[k][2] + SumCounts(lines, k + 1)

\* C8: the score list has exactly the 101 buckets 0..100 in ascending order;
\* bucket s is the number of records whose score is present and equals s;
\* records with an absent score or a score outside 0..100 are in no bucket,
\* whatever their vote count.
C8_ScoreHistogram ==
    (pc = "menu" /\ out.op = "scores") =>
        /\ Len(out.lines) = 101
        /\ \A k \in 1..Len(out.lines) :
              /\ out.lines[k][1] = k - 1
              /\ out.lines[k][2]
                    = Cardinality({i \in Loaded : ScoreCase(i).score = Some(k - 1)})
        /\ SumCounts(out.lines, 1)
              = Cardinality({i \in Loaded : /\ ~IsNone(ScoreCase(i).score)
                                            /\ Val(ScoreCase(i).score) >= 0
                                            /\ Val(ScoreCase(i).score) <= 100})

\* a record with score 100 and no vote count is in bucket 100, a record with
\* score 150 is in no bucket
C8_Witness ==
    /\ pc = "menu" /\ out.op = "scores"
    /\ Len(movies) = 2
    /\ ScoreCase(1).score = Some(100) /\ ScoreCase(1).count = None
    /\ ScoreCase(2).score = Some(150)
    /\ out.lines[101] = <<100, 1>>
    /\ SumCounts(out.lines, 1) = 1

-----------------------------------------------------------------------------
(* The director query over any collection *)

MaxDirectorRows == 3

\* directors texts and the persons each one names
DirectorCases ==
    {[row |-> Row(Some(<<"m", "1">>), Some(<<"U", "p">>), Some(<<"P", "G">>), Some(<<"D", "r", "a", "m", "a">>), d.text, None, None,
                  Some(<<"9", "5">>), None, None, None),
      who |-> d.who] :
        d \in {[text |-> None,              who |-> {}],
               [text |-> Some(<<"A", "l">>),       who |-> {"al"}],
               [text |-> Some(<<"B", "o">>),       who |-> {"bo"}],
               [text |-> Some(<<"B", "o", ",", " ", "a", "l">>),   who |-> {"al", "bo"}],
               [text |-> Some(<<"A", "l", ",", " ", "A", "L">>),   who |-> {"al"}]}}

DirectorRows == {c.row : c \in DirectorCases}

\* whom a stored fullname names
WhoIs(fullname) ==
    CASE fullname \in {<<"A", "l">>, <<"A", "L">>, <<"a", "l">>} -> "al"
      [] fullname \in {<<"B", "o">>} -> "bo"

InitDirectors == Boot /\ source \in Files(DirectorRows, MaxDirectorRows)

NextDirectors ==
    \/ load_row
    \/ finish_load
    \/ menu_print_person_count
    \/ menu_print_most_active_director

SpecDirectors == InitDirectors /\ [][NextDirectors]_vars

DirectorCase(i) == CHOOSE c \in DirectorCases : c.row = source[i]

\* the number of records that list the person among their directors
FilmsOf(who) == Cardinality({i \in 1..Len(source) : who \in DirectorCase(i).who})

\* C6: the director query counts records per director: the counter of every
\* person is the number of records whose directors contain that person, also
\* when a directors field names the person more than once, so max_count never
\* exceeds the collection size; the result lists every director whose counter
\* is the maximum and is "none found" exactly when no record has a director.
C6_MostActiveDirectors ==
    (pc = "menu" /\ out.op = "directors") =>
        /\ out.found <=> (\E i \in 1..Len(source) : DirectorCase(i).who # {})
        /\ \A k \in 1..Len(out.counts) :
              out.counts[k][2] = FilmsOf(WhoIs(out.counts[k][1].fullname))
        /\ out.max_count <= Len(movies)
        /\ out.found =>
              /\ out.max_count = SetMax({FilmsOf(w) : w \in {"al", "bo"}})
              /\ {WhoIs(out.most_active[k].fullname) : k \in 1..Len(out.most_active)}
                    = {w \in {"al", "bo"} : FilmsOf(w) = out.max_count}

-----------------------------------------------------------------------------
(* The genre query over any collection *)

MaxGenreRows == 6

\* genre texts and the name of the class create_movie builds for each
GenreCases ==
    {[row |-> Row(Some(<<"m", "1">>), Some(<<"U", "p">>), Some(<<"P", "G">>), g.text, None, None, None,
                  Some(<<"9", "5">>), None, None, None),
      name |-> g.name] :
        g \in {[text |-> Some(<<"C", "o", "m", "e", "d", "y">>),             name |-> <<"C", "o", "m", "e", "d", "y">>],
               [text |-> Some(<<"D", "R", "A", "M", "A">>),              name |-> <<"D", "r", "a", "m", "a">>],
               [text |-> Some(<<" ", "w", "e", "s", "t", "e", "r", "n", " ">>),          name |-> <<"W", "e", "s", "t", "e", "r", "n">>],
               [text |-> Some(<<"A", "c", "t", "i", "o", "n", " ", "&", " ", "A", "d", "v", "e", "n", "t", "u", "r", "e">>), name |-> <<"A", "c", "t", "i", "o", "n", "A", "d", "v", "e", "n", "t", "u", "r", "e">>]}}

GenreRows == {c.row : c \in GenreCases}

\* the class names in ascending order
NameRank(name) ==
    CASE name = <<"A", "c", "t", "i", "o", "n", "A", "d", "v", "e", "n", "t", "u", "r", "e">> -> 1
      [] name = <<"C", "o", "m", "e", "d", "y">> -> 2
      [] name = <<"D", "r", "a", "m", "a">> -> 3
      [] name = <<"W", "e", "s", "t", "e", "r", "n">> -> 4

InitGenres == Boot /\ source \in Files(GenreRows, MaxGenreRows)

NextGenres ==
    \/ load_row
    \/ finish_load
    \/ menu_print_movie_count
    \/ menu_print_genre_counts

SpecGenres == InitGenres /\ [][NextGenres]_vars

GenreCase(i) == CHOOSE c \in GenreCases : c.row = source[i]

RecordsOf(name) == Cardinality({i \in 1..Len(source) : GenreCase(i).name = name})

\* C9: the genre query lists one (genre, count) pair for each genre that has
\* a record, by count descending and, among equal counts, by genre name
\* ascending; each count is the number of records of the genre and the counts
\* sum to the collection size.
C9_GenreHistogram ==
    (pc = "menu" /\ out.op = "genres") =>
        /\ {out.lines[k][1] : k \in 1..Len(out.lines)}
              = {c.name : c \in {d \in GenreCases : RecordsOf(d.name) > 0}}
        /\ \A k \in 1..Len(out.lines) : out.lines[k][2] = RecordsOf(out.lines[k][1])
        /\ \A k \in 1..Len(out.lines) - 1 :
              \/ out.lines[k][2] > out.lines[k + 1][2]
              \/ /\ out.lines[k][2] = out.lines[k + 1][2]
                 /\ NameRank(out.lines[k][1]) < NameRank(out.lines[k + 1][1])
        /\ SumCounts(out.lines, 1) = Len(movies)

\* 2 Comedy, 3 Drama and 1 Western, loaded with the Western first, are
\* reported as Drama 3, Comedy 2, Western 1
C9_Witness ==
    /\ pc = "menu" /\ out.op = "genres"
    /\ Len(movies) = 6
    /\ movies[1].cls = "Western" /\ movies[2].cls = "Comedy"
    /\ out.lines = <<<<<<"D", "r", "a", "m", "a">>, 3>>, <<<<"C", "o", "m", "e", "d", "y">>, 2>>, <<<<"W", "e", "s", "t", "e", "r", "n">>, 1>>>>

-----------------------------------------------------------------------------
(* The callers of relevant_score over any collection *)

MaxSentinelRows == 2

\* genre and release date texts, with the tag the title carries
SentinelKinds ==
    {[genre |-> <<"C", "o", "m", "e", "d", "y">>, released |-> Some(<<"1", "9", "9", "9", "-", "1", "2", "-", "3", "1">>), tag |-> "C"],
     [genre |-> <<"D", "r", "a", "m", "a">>, released |-> None, tag |-> "D"]}

\* audience_rating / audience_count texts, the integer each one stands for
\* and the tag the title carries
SentinelScores ==
    {[text |-> Some(<<"n", "-", "a">>), value |-> None, tag |-> "n"],
     [text |-> Some(<<"0">>), value |-> Some(0), tag |-> "z"],
     [text |-> Some(<<"8", "5">>), value |-> Some(85), tag |-> "h"]}

SentinelCounts ==
    {[text |-> None, value |-> None, tag |-> "n"],
     [text |-> Some(<<"9", "9">>), value |-> Some(99), tag |-> "l"],
     [text |-> Some(<<"1", "0", "0">>), value |-> Some(100), tag |-> "v"]}

\* rows that load, each with a title of its own, and whether the record has
\* a present score backed by at least 100 votes
SentinelCases ==
    {[row |-> Row(Some(<<"m", "1">>), Some(<<k.tag, s.tag, c.tag>>), Some(<<"R">>), Some(k.genre),
                  None, k.released, None, None, None, s.text, c.text),
      title |-> <<k.tag, s.tag, c.tag>>,
      relevant |-> s.value # None /\ c.value = Some(100)] :
        k \in SentinelKinds, s \in SentinelScores, c \in SentinelCounts}

SentinelRows == {c.row : c \in SentinelCases}

InitSentinel == Boot /\ source \in Files(SentinelRows, MaxSentinelRows)

NextSentinel ==
    \/ load_row
    \/ finish_load
    \/ call_is_slapstick
    \/ call_is_classic
    \/ menu_print_highest_score_movies

SpecSentinel == InitSentinel /\ [][NextSentinel]_vars

SentinelCase(i) == CHOOSE c \in SentinelCases : c.row = source[i]

SentinelTitled(t) == CHOOSE c \in SentinelCases : c.title = t

\* C12: for a record whose relevant_score is not relevant, is_slapstick is
\* false although the reported value 0 is below 40, is_classic is false, and
\* the record is not among the titles of the highest-score query, not even
\* when the highest relevant score is 0.
C12_SentinelNotAScore ==
    /\ (pc = "menu" /\ out.op = "is_slapstick" /\ ~SentinelCase(out.index).relevant)
          => out.result = FALSE
    /\ (pc = "menu" /\ out.op = "is_classic" /\ ~SentinelCase(out.index).relevant)
          => out.result = FALSE
    /\ (pc = "menu" /\ out.op = "highest") =>
          \A k \in 1..Len(out.titles) : SentinelTitled(out.titles[k]).relevant

\* is_slapstick was asked of a Comedy with score 0 and 99 votes, loaded after
\* a record with a relevant score 0
C12_Witness ==
    /\ pc = "menu" /\ out.op = "is_slapstick"
    /\ Len(movies) = 2
    /\ SentinelCase(1).title = <<"D", "z", "v">>
    /\ SentinelCase(2).title = <<"C", "z", "l">>
    /\ out.index = 2
    /\ relevant_score(movies[2]) = <<FALSE, 0>>
    /\ out.result = FALSE

-----------------------------------------------------------------------------
(* Absent scores and zero scores over any collection *)

MaxAbsentRows == 2

\* audience_rating texts: absent, empty, blank, malformed, zero, and the tag
\* the title carries
AbsentScores ==
    {[text |-> None, value |-> None, tag |-> "a"],
     [text |-> Some(<<>>), value |-> None, tag |-> "e"],
     [text |-> Some(<<" ">>), value |-> None, tag |-> "b"],
     [text |-> Some(<<"n", "-", "a">>), value |-> None, tag |-> "m"],
     [text |-> Some(<<"0">>), value |-> Some(0), tag |-> "z"]}

\* audience_count texts: absent, empty, malformed, 100 and 250 votes
AbsentCounts ==
    {[text |-> None, value |-> None, tag |-> "a"],
     [text |-> Some(<<>>), value |-> None, tag |-> "e"],
     [text |-> Some(<<"1", " ", "0", " ", "0">>), value |-> None, tag |-> "m"],
     [text |-> Some(<<"1", "0", "0">>), value |-> Some(100), tag |-> "v"],
     [text |-> Some(<<"2", "5", "0">>), value |-> Some(250), tag |-> "w"]}

\* rows that load, each with a title of its own
AbsentCases ==
    {[row |-> Row(Some(<<"m", "1">>), Some(<<s.tag, c.tag>>), Some(<<"G">>), Some(<<"W", "e", "s", "t", "e", "r", "n">>),
                  None, None, None, None, None, s.text, c.text),
      title |-> <<s.tag, c.tag>>, score |-> s.value, count |-> c.value] :
        s \in AbsentScores, c \in AbsentCounts}

AbsentRows == {c.row : c \in AbsentCases}

InitAbsent == Boot /\ source \in Files(AbsentRows, MaxAbsentRows)

NextAbsent ==
    \/ load_row
    \/ finish_load
    \/ menu_print_score_list
    \/ menu_export_movies_without_relevant_score

SpecAbsent == InitAbsent /\ [][NextAbsent]_vars

AbsentCase(i) == CHOOSE c \in AbsentCases : c.row = source[i]

\* the records with audience_rating 0 and at least 100 votes
ZeroScored == {i \in 1..Len(movies) : AbsentCase(i).score = Some(0) /\ AbsentCase(i).count # None}

\* the records with audience_rating 0, whatever the audience_count
ZeroValued == {i \in 1..Len(movies) : AbsentCase(i).score = Some(0)}

\* the record of row i is among the exported records
Exported(i) == \E k \in 1..Len(out.exported) : out.exported[k].title = AbsentCase(i).title

\* C13 as stated: an absent, empty or malformed audience_rating or
\* audience_count gives a record with that field absent, never 0; a record
\* with either field absent is in no bucket of the score list and is
\* exported, while a record with audience_rating 0 and at least 100 votes is
\* counted in bucket 0 and is not exported.
C13_AbsentInNoBucket ==
    /\ \A i \in 1..Len(movies) :
          /\ movies[i].score = AbsentCase(i).score
          /\ movies[i].count = AbsentCase(i).count
    /\ (pc = "menu" /\ out.op = "scores") =>
          /\ out.lines[1] = <<0, Cardinality(ZeroScored)>>
          /\ \A k \in 2..Len(out.lines) : out.lines[k][2] = 0
    /\ (pc = "menu" /\ out.op = "export") =>
          \A i \in 1..Len(movies) : Exported(i) <=> i \notin ZeroScored

\* C13, amended: an absent, empty or malformed audience_rating or
\* audience_count gives a record with that field absent, never 0; a record
\* whose score is absent is in no bucket of the score list, a record whose
\* score or count is absent is exported, and a record with audience_rating 0
\* is counted in bucket 0 whatever its votes and is not exported when it has
\* at least 100 votes.
C13_AbsentIsNotZero ==
    /\ \A i \in 1..Len(movies) :
          /\ movies[i].score = AbsentCase(i).score
          /\ movies[i].count = AbsentCase(i).count
    /\ (pc = "menu" /\ out.op = "scores") =>
          /\ out.lines[1] = <<0, Cardinality(ZeroValued)>>
          /\ \A k \in 2..Len(out.lines) : out.lines[k][2] = 0
    /\ (pc = "menu" /\ out.op = "export") =>
          \A i \in 1..Len(movies) : Exported(i) <=> i \notin ZeroScored

\* the score list was printed for a record with a malformed score and 100
\* votes and a record with score 0 and 100 votes: bucket 0 counts one
C13_Witness ==
    /\ pc = "menu" /\ out.op = "scores"
    /\ Len(movies) = 2
    /\ AbsentCase(1).title = <<"m", "v">>
    /\ AbsentCase(2).title = <<"z", "v">>
    /\ IsNone(movies[1].score)
    /\ out.lines[1] = <<0, 1>>

-----------------------------------------------------------------------------
(* The scary horror query over any collection *)

MaxScaryRows == 2

\* genre texts, whether the record is a Horror, and the tag the title carries
ScaryGenres ==
    {[text |-> <<"H", "o", "r", "r", "o", "r">>, horror |-> TRUE, tag |-> "h"],
     [text |-> <<" ", "h", "o", "r", "r", "o", "r", " ">>, horror |-> TRUE, tag |-> "i"],
     [text |-> <<"D", "r", "a", "m", "a">>, horror |-> FALSE, tag |-> "d"]}

\* content_rating texts, whether the rating is above PG in the order
\* NR < G < PG < PG-13 < R < NC17, and the tag the title carries
ScaryRatings ==
    {[text |-> <<"N", "R">>, above_pg |-> FALSE, tag |-> "n"],
     [text |-> <<"G">>, above_pg |-> FALSE, tag |-> "g"],
     [text |-> <<"P", "G">>, above_pg |-> FALSE, tag |-> "p"],
     [text |-> <<"p", "g", "-", "1", "3">>, above_pg |-> TRUE, tag |-> "t"],
     [text |-> <<"R">>, above_pg |-> TRUE, tag |-> "r"],
     [text |-> <<"N", "C", "1", "7">>, above_pg |-> TRUE, tag |-> "a"]}

\* rows that load, each with a title of its own
ScaryCases ==
    {[row |-> Row(Some(<<"m", "1">>), Some(<<g.tag, r.tag>>), Some(r.text), Some(g.text),
                  None, None, None, None, None, None, None),
      title |-> <<g.tag, r.tag>>, scary |-> g.horror /\ r.above_pg] :
        g \in ScaryGenres, r \in ScaryRatings}

ScaryRows == {c.row : c \in ScaryCases}

InitScary == Boot /\ source \in Files(ScaryRows, MaxScaryRows)

NextScary ==
    \/ load_row
    \/ finish_load
    \/ menu_print_scary_horror

SpecScary == InitScary /\ [][NextScary]_vars

ScaryCase(i) == CHOOSE c \in ScaryCases : c.row = source[i]

\* the titles of the Horror records rated above PG, from record i on
RECURSIVE ScaryTitles(_)
ScaryTitles(i) ==
    IF i > Len(movies) THEN <<>>
    ELSE (IF ScaryCase(i).scary THEN <<ScaryCase(i).title>> ELSE <<>>) \o ScaryTitles(i + 1)

\* C14: the scary horror query lists, in collection order, exactly the
\* Horror records rated PG-13, R or NC17; a Horror rated NR, G or PG and a
\* record of another genre never appear.
C14_ScaryHorrors ==
    (pc = "menu" /\ out.op = "scary") =>
        /\ [k \in 1..Len(out.scary_movies) |-> out.scary_movies[k].title] = ScaryTitles(1)
        /\ out.none <=> ScaryTitles(1) = <<>>

\* a Horror rated PG and a Horror rated PG-13 were loaded: only the second
\* is listed
C14_Witness ==
    /\ pc = "menu" /\ out.op = "scary"
    /\ Len(movies) = 2
    /\ ScaryCase(1).title = <<"h", "p">>
    /\ ScaryCase(2).title = <<"i", "t">>
    /\ Len(out.scary_movies) = 1
    /\ out.scary_movies[1].title = <<"i", "t">>

-----------------------------------------------------------------------------
(* The runtime query over any collection *)

MaxRuntimeRows == 3

\* rows with a title of their own: whether create_movie accepts the row and
\* the length the record then has
RuntimeCases ==
    {[row |-> Row(Some(<<"m", "1">>), Some(<<"a">>), Some(<<"G">>), Some(<<"D", "r", "a", "m", "a">>), None, None, None,
                  None, None, None, None), title |-> <<"a">>, good |-> TRUE, length |-> 0],
     [row |-> Row(Some(<<"m", "2">>), Some(<<"n">>), Some(<<"G">>), Some(<<"D", "r", "a", "m", "a">>), None, None, None,
                  Some(<<"-", "5">>), None, None, None), title |-> <<"n">>, good |-> TRUE, length |-> 0],
     [row |-> Row(Some(<<"m", "3">>), Some(<<"s">>), Some(<<"G">>), Some(<<"D", "r", "a", "m", "a">>), None, None, None,
                  Some(<<" ", "7">>), None, None, None), title |-> <<"s">>, good |-> TRUE, length |-> 7],
     [row |-> Row(Some(<<"m", "4">>), Some(<<"t">>), Some(<<"G">>), Some(<<"R", "o", "m", "a", "n", "c", "e">>), None, None, None,
                  Some(<<"9", "5">>), None, None, None), title |-> <<"t">>, good |-> TRUE, length |-> 95],
     [row |-> Row(Some(<<"m", "5">>), Some(<<"u">>), Some(<<"G">>), Some(<<"R", "o", "m", "a", "n", "c", "e">>), None, None, None,
                  Some(<<"9", "5">>), None, None, None), title |-> <<"u">>, good |-> TRUE, length |-> 95],
     [row |-> Row(Some(<<"m", "6">>), Some(<<"x">>), Some(<<"G">>), Some(<<"M", "u", "s", "i", "c", "a", "l">>), None, None, None,
                  Some(<<"3", "0", "0">>), None, None, None), title |-> <<"x">>, good |-> FALSE, length |-> 300]}

RuntimeRows == {c.row : c \in RuntimeCases}

InitRuntime == Boot /\ source \in Files(RuntimeRows, MaxRuntimeRows)

NextRuntime ==
    \/ load_row
    \/ finish_load
    \/ menu_print_shortest_and_longest

SpecRuntime == InitRuntime /\ [][NextRuntime]_vars

RuntimeCase(i) == CHOOSE c \in RuntimeCases : c.row = source[i]

\* the rows of the file that became records
RuntimeRecords == {i \in 1..Len(source) : RuntimeCase(i).good}

\* the titles of the records of length n, in file order from row i on
RECURSIVE TitlesOfLength(_, _)
TitlesOfLength(n, i) ==
    IF i > Len(source) THEN <<>>
    ELSE (IF RuntimeCase(i).good /\ RuntimeCase(i).length = n
          THEN <<RuntimeCase(i).title>> ELSE <<>>) \o TitlesOfLength(n, i + 1)

TitlesIn(ms) == [k \in 1..Len(ms) |-> ms[k].title]

\* C15: the runtime query reports "no movies" exactly when the collection is
\* empty; otherwise min_length <= every record's length <= max_length, both
\* lists are non-empty, the shortest list holds exactly the records of
\* length min_length and the longest list exactly those of length
\* max_length, ties included and a missing runtime counting as length 0.
C15_RuntimeExtremes ==
    (pc = "menu" /\ out.op = "extremes") =>
        /\ out.none <=> RuntimeRecords = {}
        /\ ~out.none =>
              /\ \A i \in RuntimeRecords :
                    out.min_length <= RuntimeCase(i).length
                    /\ RuntimeCase(i).length <= out.max_length
              /\ out.shortest # <<>> /\ out.longest # <<>>
              /\ TitlesIn(out.shortest) = TitlesOfLength(out.min_length, 1)
              /\ TitlesIn(out.longest) = TitlesOfLength(out.max_length, 1)

\* a record without runtime, a record of 95 minutes and a record with a
\* negative runtime were loaded: the shortest list holds the first and third
C15_Witness ==
    /\ pc = "menu" /\ out.op = "extremes"
    /\ Len(movies) = 3
    /\ TitlesIn(movies) = <<<<"a">>, <<"t">>, <<"n">>>>
    /\ out.min_length = 0 /\ out.max_length = 95
    /\ TitlesIn(out.shortest) = <<<<"a">>, <<"n">>>>
    /\ TitlesIn(out.longest) = <<<<"t">>>>

-----------------------------------------------------------------------------
(* RatingRegistry under any sequence of get_rating calls and constructions *)

MaxRegistryCalls == 2

SixCodes == {<<"N", "R">>, <<"G">>, <<"P", "G">>, <<"P", "G", "-", "1", "3">>, <<"R">>, <<"N", "C", "1", "7">>}

\* code texts: the code get_rating resolves the text to (<<>> for none), and
\* whether the text is one of the six codes in some casing
RegistryCases ==
    {[raw |-> <<"N", "R">>, canon |-> <<"N", "R">>, exists |-> TRUE],
     [raw |-> <<"g">>, canon |-> <<"G">>, exists |-> TRUE],
     [raw |-> <<"P", "g">>, canon |-> <<"P", "G">>, exists |-> TRUE],
     [raw |-> <<"p", "g", "-", "1", "3">>, canon |-> <<"P", "G", "-", "1", "3">>, exists |-> TRUE],
     [raw |-> <<"R">>, canon |-> <<"R">>, exists |-> TRUE],
     [raw |-> <<"n", "c", "1", "7">>, canon |-> <<"N", "C", "1", "7">>, exists |-> TRUE],
     [raw |-> <<" ", "r", " ">>, canon |-> <<"R">>, exists |-> FALSE],
     [raw |-> <<"P", "G", "1", "3">>, canon |-> <<>>, exists |-> FALSE],
     [raw |-> <<"X">>, canon |-> <<>>, exists |-> FALSE],
     [raw |-> <<>>, canon |-> <<>>, exists |-> FALSE]}

RegistryCase(raw) == CHOOSE c \in RegistryCases : c.raw = raw

RegistryDescriptions == {"Parental guidance advised", ""}

RegistryGet ==
    /\ Len(calls) < MaxRegistryCalls
    /\ \E c \in RegistryCases : call_get_rating(Some(c.raw))

RegistryCreate ==
    /\ Len(calls) < MaxRegistryCalls
    /\ \E c \in RegistryCases, description \in RegistryDescriptions :
          call_MovieRating(c.raw, description)

NextRegistry == RegistryGet \/ RegistryCreate

SpecRegistry == Init /\ [][NextRegistry]_vars

IsCreate(call) == "description" \in DOMAIN call

\* the registry holds one rating per code of the six, as startup left it
ExactlySix ==
    /\ DOMAIN MovieRating_instances = SixCodes
    /\ \A k \in SixCodes : MovieRating_instances[k].code = k
    /\ \A k, l \in SixCodes :
          MovieRating_instances[k].id = MovieRating_instances[l].id => k = l
    /\ MovieRating_instances = RatingModuleLoaded.reg

\* get_rating fails exactly for a text that resolves to none of the six
GetOutcomes ==
    \A i \in 1..Len(calls) :
        ~IsCreate(calls[i]) =>
            LET c == RegistryCase(Val(calls[i].arg))
            IN  /\ calls[i].ok <=> c.canon # <<>>
                /\ calls[i].ok => Val(calls[i].result).code = c.canon
                /\ calls[i].count = 6

\* C16 as stated: the registry always holds exactly one rating for each of
\* the six codes; get_rating for a code outside the six fails, a
\* construction for a code that exists, in any casing, fails with
\* DuplicateRating, and no failure changes the registry.
C16_DuplicateAlways ==
    /\ ExactlySix
    /\ GetOutcomes
    /\ \A i \in 1..Len(calls) :
          IsCreate(calls[i]) =>
              /\ ~calls[i].ok /\ calls[i].count = 6
              /\ RegistryCase(Val(calls[i].arg)).exists => calls[i].err = "DuplicateRating"

\* C16, amended: the registry always holds exactly one rating for each of
\* the six codes; get_rating for a code outside the six fails, a
\* construction with a non-empty description for a code that exists, in any
\* casing, fails with DuplicateRating, every other construction fails too,
\* and no failure changes the registry.
C16_RegistryExactlySix ==
    /\ ExactlySix
    /\ GetOutcomes
    /\ \A i \in 1..Len(calls) :
          IsCreate(calls[i]) =>
              /\ ~calls[i].ok /\ calls[i].count = 6
              /\ (RegistryCase(Val(calls[i].arg)).exists /\ calls[i].description # "")
                    => calls[i].err = "DuplicateRating"

\* a rating was constructed for the code pg-13 and failed as a duplicate;
\* get_rating then returned the rating registered at startup
C16_Witness ==
    /\ Len(calls) = 2
    /\ IsCreate(calls[1]) /\ calls[1].arg = Some(<<"p", "g", "-", "1", "3">>)
    /\ calls[1].err = "DuplicateRating"
    /\ ~IsCreate(calls[2]) /\ calls[2].arg = Some(<<"p", "g", "-", "1", "3">>)
    /\ calls[2].ok /\ Val(calls[2].result) = RatingModuleLoaded.reg[<<"P", "G", "-", "1", "3">>]

-----------------------------------------------------------------------------
(* The menu loop over any collection *)

MaxMenuRows == 2

\* rows of the source file, each with a title of its own: whether
\* create_movie accepts the row, whether it gets as far as resolving the
\* directors column, and the persons the column names
MenuCases ==
    {[row |-> Row(Some(<<"m", "1">>), Some(<<"b">>), Some(<<"R">>), Some(<<"H", "o", "r", "r", "o", "r">>), Some(<<"A", "l", ",", " ", "B", "o">>),
                  None, None, Some(<<"9", "5">>), None, None, None),
      title |-> <<"b">>, good |-> TRUE, resolved |-> TRUE, names |-> {"al", "bo"}],
     [row |-> Row(Some(<<"m", "2">>), Some(<<"a">>), Some(<<"P", "G">>), Some(<<"C", "o", "m", "e", "d", "y">>), Some(<<" ", "a", "l">>),
                  Some(<<"1", "9", "9", "9", "-", "1", "2", "-", "3", "1">>), None, None, Some(<<"F", "o", "x">>), Some(<<"0">>), Some(<<"9", "9">>)),
      title |-> <<"a">>, good |-> TRUE, resolved |-> TRUE, names |-> {"al"}],
     [row |-> Row(Some(<<"m", "3">>), Some(<<"c">>), Some(<<"G">>), Some(<<"D", "r", "a", "m", "a">>), None,
                  None, Some(<<"2", "0", "2", "0", "-", "0", "2", "-", "2", "9">>), Some(<<"1", "2", "0">>), None, Some(<<"8", "5">>), Some(<<"1", "5", "0">>)),
      title |-> <<"c">>, good |-> TRUE, resolved |-> TRUE, names |-> {}],
     [row |-> Row(Some(<<"m", "4">>), Some(<<"d">>), Some(<<"G">>), Some(<<"M", "u", "s", "i", "c", "a", "l">>), Some(<<"C", "y">>),
                  None, None, Some(<<"8", "0">>), None, Some(<<"5", "0">>), Some(<<"1", "0", "0">>)),
      title |-> <<"d">>, good |-> FALSE, resolved |-> TRUE, names |-> {"cy"}],
     [row |-> Row(Some(<<"m", "5">>), Some(<<"e">>), Some(<<"P", "G", "1", "3">>), Some(<<"D", "r", "a", "m", "a">>), Some(<<"D", "i", ",", " ", "A", "l">>),
                  None, None, Some(<<"8", "0">>), None, Some(<<"5", "0">>), Some(<<"1", "0", "0">>)),
      title |-> <<"e">>, good |-> FALSE, resolved |-> FALSE, names |-> {"di", "al"}],
     [row |-> Row(Some(<<"m", "6">>), Some(<<"f">>), Some(<<"R">>), None, Some(<<"E", "d">>),
                  None, None, Some(<<"8", "0">>), None, Some(<<"5", "0">>), Some(<<"1", "0", "0">>)),
      title |-> <<"f">>, good |-> FALSE, resolved |-> FALSE, names |-> {"ed"}]}

MenuRows == {c.row : c \in MenuCases}

InitMenu == Boot /\ source \in Files(MenuRows, MaxMenuRows)

NextMenu ==
    \/ load_row
    \/ finish_load
    \/ menu_print_movie_count
    \/ menu_print_genre_counts
    \/ menu_print_person_count
    \/ menu_print_highest_score_movies
    \/ menu_print_most_active_director
    \/ menu_print_shortest_and_longest
    \/ menu_print_scary_horror
    \/ menu_print_score_list
    \/ menu_export_movies_without_relevant_score
    \/ stop

SpecMenu == InitMenu /\ [][NextMenu]_vars

MenuCase(i) == CHOOSE c \in MenuCases : c.row = source[i]

\* C18: once the file is loaded, every menu operation, the export with its
\* sort included, leaves the collection (members and order), the fields of
\* every record, the Person registry and the rating registry as they were,
\* and an operation invoked again right away gives the same result.
C18_QueriesLeaveState ==
    [][pc = "menu" =>
          /\ movies' = movies
          /\ Person_instances' = Person_instances
          /\ MovieRating_instances' = MovieRating_instances
          /\ out'.op = out.op => out' = out]_vars

\* two records without a relevant score, loaded in descending title order,
\* were exported in ascending order and the collection kept its order
C18_Witness ==
    /\ pc = "menu" /\ out.op = "export"
    /\ Len(movies) = 2
    /\ movies[1].title = <<"b">> /\ movies[2].title = <<"a">>
    /\ Len(out.exported) = 2
    /\ out.exported[1].title = <<"a">> /\ out.exported[2].title = <<"b">>

-----------------------------------------------------------------------------
(* get_person called from two threads: every statement that reads or writes *)
(* Person._instances is a step of its own                                   *)

\* a caller about to enter get_person(fullname), fullname a str
Caller(fullname) ==
    [fullname |-> fullname, at |-> "start", missed |-> FALSE, cleaned |-> <<>>,
     key |-> <<>>, self |-> None, ok |-> FALSE, err |-> "", result |-> None]

\* get_person up to its lookup `key in Person._instances`
thread_lookup(t) ==
    /\ threads[t].at = "start"
    /\ LET cleaned == strip(threads[t].fullname)
           key == lower(cleaned)
       IN  threads' =
             IF cleaned = <<>>
             THEN [threads EXCEPT ![t].at = "done", ![t].err = "EmptyName"]
             ELSE IF key \in DOMAIN Person_instances
             THEN [threads EXCEPT ![t].at = "found", ![t].key = key]
             ELSE [threads EXCEPT ![t].at = "construct", ![t].key = key,
                                  ![t].cleaned = cleaned, ![t].missed = TRUE]
    /\ UNCHANGED <<MovieRating_instances, Person_instances, nextId, source, line,
                   movies, errors, pc, calls, export_file, out>>

\* return Person._instances[key]
thread_return(t) ==
    /\ threads[t].at = "found"
    /\ threads' = [threads EXCEPT ![t].at = "done", ![t].ok = TRUE,
                                  ![t].result = Some(Person_instances[threads[t].key])]
    /\ UNCHANGED <<MovieRating_instances, Person_instances, nextId, source, line,
                   movies, errors, pc, calls, export_file, out>>

\* Person.__post_init__ that hands out the registered instance where the
\* code raises the duplicate error
thread_construct_reuse(t) ==
    /\ threads[t].at = "construct"
    /\ LET fullname == threads[t].cleaned
           key == lower(strip(fullname))
       IN  threads' =
             IF key \in DOMAIN Person_instances
             THEN [threads EXCEPT ![t].at = "done", ![t].ok = TRUE,
                                  ![t].result = Some(Person_instances[key])]
             ELSE [threads EXCEPT ![t].at = "store",
                                  ![t].self = Some([id |-> nextId, fullname |-> fullname])]
    /\ nextId' = nextId + 1
    /\ UNCHANGED <<MovieRating_instances, Person_instances, source, line,
                   movies, errors, pc, calls, export_file, out>>

\* Person(fullname=cleaned) up to the check `key in Person._instances` of
\* __post_init__
thread_construct(t) ==
    /\ threads[t].at = "construct"
    /\ LET fullname == threads[t].cleaned
           key == lower(strip(fullname))
       IN  threads' =
             IF key \in DOMAIN Person_instances
             THEN [threads EXCEPT ![t].at = "done", ![t].err = "DuplicatePerson"]
             ELSE [threads EXCEPT ![t].at = "store",
                                  ![t].self = Some([id |-> nextId, fullname |-> fullname])]
    /\ nextId' = nextId + 1
    /\ UNCHANGED <<MovieRating_instances, Person_instances, source, line,
                   movies, errors, pc, calls, export_file, out>>

\* Person._instances[key] = self, and get_person returns the new object
thread_store(t) ==
    /\ threads[t].at = "store"
    /\ LET self == Val(threads[t].self)
           key == threads[t].key
       IN  Person_instances' = [k \in DOMAIN Person_instances \cup {key} |->
                                   IF k = key THEN self ELSE Person_instances[k]]
    /\ threads' = [threads EXCEPT ![t].at = "done", ![t].ok = TRUE,
                                  ![t].result = threads[t].self]
    /\ UNCHANGED <<MovieRating_instances, nextId, source, line,
                   movies, errors, pc, calls, export_file, out>>

\* a thread arrives at a call get_person(fullname)
thread_start(fullname) ==
    /\ threads' = Append(threads, Caller(fullname))
    /\ UNCHANGED <<MovieRating_instances, Person_instances, nextId, source, line,
                   movies, errors, pc, calls, export_file, out>>

MaxCallers == 2

\* names the callers ask for, and the person each name stands for
CallerNames ==
    {[raw |-> <<"A", "l">>, who |-> "al"],
     [raw |-> <<" ", "A", "L", " ">>, who |-> "al"],
     [raw |-> <<"B", "o">>, who |-> "bo"],
     [raw |-> <<"b", "o", " ">>, who |-> "bo"],
     [raw |-> <<"A", "l", " ", "B", "o">>, who |-> "al bo"],
     [raw |-> <<" ">>, who |-> ""]}

CallerArrives ==
    /\ Len(threads) < MaxCallers
    /\ \E n \in CallerNames : thread_start(n.raw)

CallerSteps ==
    \E t \in 1..Len(threads) :
        \/ thread_lookup(t)
        \/ thread_return(t)
        \/ thread_construct(t)
        \/ thread_store(t)

NextCallers == CallerArrives \/ CallerSteps

SpecCallers == Init /\ [][NextCallers]_vars

WhoCalls(t) == (CHOOSE n \in CallerNames : n.raw = threads[t].fullname).who

\* the finished calls that asked for the same person as call t
SameKeyDone(t) ==
    {u \in 1..Len(threads) : threads[u].at = "done" /\ WhoCalls(u) = WhoCalls(t)}

\* the calls for the person of call t whose lookup found no entry
Missed(t) ==
    {u \in 1..Len(threads) : WhoCalls(u) = WhoCalls(t) /\ threads[u].missed}

SameInstance(t, u) ==
    /\ threads[t].ok /\ threads[u].ok
    /\ Val(threads[t].result).id = Val(threads[u].result).id

\* C19: get_person checks and then acts: two calls for the same new key
\* whose lookups both ran before either stored do not return one identical
\* instance (one fails with the duplicate error or each returns an object of
\* its own); calls of which a second one looks up only after the first has
\* stored all return the identical instance.
C19_CheckThenAct ==
    \A t \in 1..Len(threads) :
        (threads[t].at = "done" /\ WhoCalls(t) # "") =>
            \A u \in SameKeyDone(t) \ {t} :
                /\ (threads[t].missed /\ threads[u].missed) =>
                      /\ ~SameInstance(t, u)
                      /\ \/ ~threads[t].ok /\ threads[t].err = "DuplicatePerson"
                         \/ ~threads[u].ok /\ threads[u].err = "DuplicatePerson"
                         \/ /\ threads[t].ok /\ threads[u].ok
                            /\ Val(threads[t].result).id # Val(threads[u].result).id
                /\ Cardinality(Missed(t)) <= 1 => SameInstance(t, u)

\* two calls for Al, in different casing, both looked up before either
\* stored, and each returned an object of its own
C19_Witness ==
    /\ Len(threads) = 2
    /\ threads[1].at = "done" /\ threads[2].at = "done"
    /\ WhoCalls(1) = "al" /\ WhoCalls(2) = "al"
    /\ threads[1].missed /\ threads[2].missed
    /\ threads[1].ok /\ threads[2].ok
    /\ Val(threads[1].result).id # Val(threads[2].result).id

\* the persons named in the rows s[1..n] that satisfy keep
RECURSIVE NamedIn(_, _, _)
NamedIn(s, n, keep) ==
    IF n = 0 THEN {}
    ELSE LET c == CHOOSE x \in MenuCases : x.row = s[n]
         IN  (IF keep[c.title] THEN c.names ELSE {}) \cup NamedIn(s, n - 1, keep)

\* by title: the rows that became records
BecameRecord == [t \in {c.title : c \in MenuCases} |-> (CHOOSE c \in MenuCases : c.title = t).good]

\* by title: the rows whose directors column was resolved
DirectorsResolved == [t \in {c.title : c \in MenuCases} |-> (CHOOSE c \in MenuCases : c.title = t).resolved]

\* C20 as stated: a create_movie call that fails adds no entry to the Person
\* registry, so the person count is at every time the number of distinct
\* director names in the records loaded so far, and so is the count that
\* menu option 3 prints.
C20_FailedCreateAddsNoPerson ==
    /\ get_person_count(Person_instances)
          = Cardinality(NamedIn(source, line, BecameRecord))
    /\ (pc = "menu" /\ out.op = "persons") =>
          out.count = Cardinality(NamedIn(source, Len(source), BecameRecord))

\* C20, amended: a create_movie call that fails with MissingField or
\* UnknownRatingCode adds no entry to the Person registry, and a call that
\* fails with UnknownGenre adds the new names of its directors column; the
\* person count is the number of distinct director names in the rows with
\* four non-empty required columns and a known rating code.
C20_PersonsOfResolvedRows ==
    /\ get_person_count(Person_instances)
          = Cardinality(NamedIn(source, line, DirectorsResolved))
    /\ (pc = "menu" /\ out.op = "persons") =>
          out.count = Cardinality(NamedIn(source, Len(source), DirectorsResolved))

\* the file held a row with an unknown rating code naming Di and Al and a
\* record directed by Al and Bo: two persons are counted
C20_Witness ==
    /\ pc = "menu" /\ out.op = "persons"
    /\ Len(source) = 2
    /\ MenuCase(1).title = <<"e">> /\ MenuCase(2).title = <<"b">>
    /\ Len(movies) = 1
    /\ out.count = 2

-----------------------------------------------------------------------------
(* The export file read back through create_movie *)

\* create_movie(row) for a row of the file the export just wrote, as a
\* csv.DictReader over that file yields it
reimport_exported_row ==
    /\ pc = "menu"
    /\ out.op = "export" /\ ~out.none
    /\ \E k \in 1..Len(Val(export_file)) :
          \E c \in {create_movie(Val(export_file)[k], MovieRating_instances,
                                 Person_instances, nextId)} :
              /\ Person_instances' = c.reg
              /\ nextId' = c.nid
              /\ out' = [op |-> "reimport", original |-> out.exported[k],
                         row |-> Val(export_file)[k], ok |-> c.ok,
                         err |-> IF c.ok THEN "" ELSE c.err,
                         result |-> IF c.ok THEN Some(c.movie) ELSE None]
    /\ UNCHANGED <<threads, MovieRating_instances, source, line, movies, errors, pc,
                   calls, export_file>>

MaxRoundTripRows == 2

\* one row per genre of the table, none with a relevant score, with the
\* optional columns absent, empty, malformed or well-formed
RoundTripRows ==
    {Row(Some(<<"m", "1">>), Some(<<"U", "p">>), Some(<<"P", "G">>), Some(<<"A", "c", "t", "i", "o", "n", " ", "&", " ", "A", "d", "v", "e", "n", "t", "u", "r", "e">>), Some(<<"A", "l", ",", " ", "B", "o">>),
         Some(<<"1", "9", "9", "9", "-", "1", "2", "-", "3", "1">>), None, Some(<<"9", "5">>), Some(<<"F", "o", "x">>), Some(<<"8", "5">>), Some(<<"9", "9">>)),
     Row(Some(<<" ", "m", "2", " ">>), Some(<<" ", "M", "r", " ", "X">>), Some(<<"n", "r">>), Some(<<"c", "o", "m", "e", "d", "y">>), Some(<<>>),
         None, None, Some(<<"-", "5">>), None, None, None),
     Row(Some(<<"m", "3">>), Some(<<"E", "d">>), Some(<<" ", "p", "g", "-", "1", "3", " ">>), Some(<<"D", "R", "A", "M", "A">>), Some(<<"A", "l", ",", " ", "A", "L">>),
         Some(<<"s", "o", "o", "n">>), Some(<<"0", "9", "8", "7", "-", "0", "1", "-", "0", "2">>), None, Some(<<" ", "A", " ", "&", " ", "B", " ">>), Some(<<"0">>), Some(<<"0">>)),
     Row(Some(<<"m", "4">>), Some(<<"I", "t">>), Some(<<"R">>), Some(<<" ", "H", "o", "r", "r", "o", "r", " ">>), Some(<<" ", "b", "o", " ", ",", ",", " ", "A", "l">>),
         Some(<<"2", "0", "0", "0", "-", "0", "2", "-", "2", "9">>), Some(<<"2", "0", "0", "0", "-", "0", "2", "-", "3", "0">>), Some(<<"0">>), Some(<<" ">>), Some(<<"n", "-", "a">>), Some(<<"1", "5", "0">>)),
     Row(Some(<<"m", "5">>), Some(<<"O", "z">>), Some(<<"G">>), Some(<<"R", "o", "m", "a", "n", "c", "e">>), None,
         None, Some(<<"2", "0", "2", "0", "-", "1", "0", "-", "0", "5">>), Some(<<"1", "0", "0">>), Some(<<"F", "o", "x">>), Some(<<"-", "5">>), Some(<<"5", "0">>)),
     Row(Some(<<"m", "6">>), Some(<<"P", "i">>), Some(<<"N", "C", "1", "7">>), Some(<<"S", "c", "i", "e", "n", "c", "e", " ", "F", "i", "c", "t", "i", "o", "n", " ", "&", " ", "F", "a", "n", "t", "a", "s", "y">>), Some(<<"C", "y">>),
         Some(<<"1", "9", "9", "9", "-", "1", "2", "-", "3", "1">>), None, Some(<<"7">>), None, Some(<<"1", "0", "0">>), None),
     Row(Some(<<"m", "7">>), Some(<<"a">>), Some(<<"g">>), Some(<<"w", "e", "s", "t", "e", "r", "n">>), Some(<<"A", "L">>),
         None, None, Some(<<"9", "x">>), Some(<<"F", "o", "x">>), None, Some(<<"1", "0", "0">>))}

InitRoundTrip == Boot /\ source \in Files(RoundTripRows, MaxRoundTripRows)

\* objects constructed in one run: every record read back is a new object
MaxObjects == 14

ReadBack == nextId < MaxObjects /\ reimport_exported_row

NextRoundTrip ==
    \/ load_row
    \/ finish_load
    \/ menu_export_movies_without_relevant_score
    \/ ReadBack

SpecRoundTrip == InitRoundTrip /\ [][NextRoundTrip]_vars

\* C21: for every exported record, of any of the seven genres, create_movie
\* accepts the row the export wrote for it and returns a record of the same
\* class with the same rt_link, title, rating, directors, dates, length,
\* company, score and count.
C21_ExportRoundTrip ==
    (pc = "menu" /\ out.op = "reimport") =>
        /\ out.ok
        /\ Val(out.result) = out.original

====
